---- MODULE Spec2Model ----
(***************************************************************************)
(* Model of the configuration loader of cdk-init                           *)
(* (config/environment.config.ts), of the application entry point          *)
(* (bin/cdk-init.ts) and of the main stack's constructor                   *)
(* (lib/cdk-init-stack.ts), and of the base class of the constructs        *)
(* (lib/shared/base.construct.ts).                                         *)
(*                                                                         *)
(* A JavaScript string is a sequence of one-character strings, so that     *)
(* the regular expressions, parseInt and the template literals of the      *)
(* source are computed character by character.  `undefined` is UNDEFINED.  *)
(* A JavaScript number is a record [nan, n]: NaN or the integer n.         *)
(***************************************************************************)
EXTENDS Integers, Sequences, FiniteSets, TLC

VARIABLES
  env,        \* process.env: variable name -> string or UNDEFINED
  instance,   \* EnvironmentConfig.instance (static): 0 (undefined) or an object id
  heap,       \* the EnvironmentConfig objects constructed so far: id -> this.config
  envConfig,  \* the exported constant envConfig: 0 (not assigned) or an object id
  pc,         \* position of the importing program
  ret,        \* what the call that has just returned gave its caller
  console,    \* lines the call that has just returned wrote with console.error
  resets,     \* number of times a test reset the static instance field
  failures,   \* number of constructions that threw so far, up to MaxFailures
  tree,       \* constructs defined so far by the entry point
  entryEnv,   \* the constant `env` of the entry point
  stackArgs,  \* what the constructs of the stack were given
  synthesized, \* app.synth() has run
  construct,  \* this.env of the BaseConstruct under use, or NoConstruct
  aspects,    \* the tags added with Tags.of(this).add, in the order of the calls
  outputs     \* the CfnOutputs defined under the construct, in the order of the calls

vars == <<env, instance, heap, envConfig, pc, ret, console, resets, failures,
          tree, entryEnv, stackArgs, synthesized, construct, aspects, outputs>>

-----------------------------------------------------------------------------
(* Bounds *)

\* a test resets the static instance field at most this many times
MaxResets == 1

\* failed constructions are counted up to this number
MaxFailures == 2

-----------------------------------------------------------------------------
(* Strings *)

UNDEFINED == <<"undefined">>

IsString(v) == v # UNDEFINED

DigitChars == <<"0", "1", "2", "3", "4", "5", "6", "7", "8", "9">>

IsDigit(c) == \E i \in 1..Len(DigitChars) : DigitChars[i] = c

\* the number of characters of s from position i on that are decimal digits
RECURSIVE DigitRun(_, _)
DigitRun(s, i) ==
  IF i >= 1 /\ i <= Len(s) /\ IsDigit(s[i]) THEN 1 + DigitRun(s, i + 1) ELSE 0

\* JavaScript truthiness of a string-or-undefined value
Truthy(v) == v # UNDEFINED /\ v # <<>>

\* a || b
OrElse(a, b) == IF Truthy(a) THEN a ELSE b

\* the string values the variables take in this model
S_dev     == <<"d", "e", "v">>
S_stg     == <<"s", "t", "g">>
S_prod    == <<"p", "r", "o", "d">>
S_invalid == <<"i", "n", "v", "a", "l", "i", "d">>
S_project == <<"a", "p", "p">>
S_region  == <<"u", "s", "-", "e", "a", "s", "t", "-", "1">>
S_acct3   == <<"1", "2", "3">>
S_acct12  == <<"1", "2", "3", "4", "5", "6", "7", "8", "9", "0", "1", "2">>
S_acct13  == <<"1", "2", "3", "4", "5", "6", "7", "8", "9", "0", "1", "2", "3">>
S_acct12x == <<"1", "2", "3", "4", "5", "6", "7", "8", "9", "0", "1", "a">>
S_cidr    == <<"1", "0", ".", "0", ".", "0", ".", "0", "/", "1", "6">>
S_cidr999 == <<"9", "9", "9", ".", "9", "9", "9", ".", "9", "9", "9", ".",
               "9", "9", "9", "/", "9", "9">>
S_cidrBad == <<"i", "n", "v", "a", "l", "i", "d", "-", "c", "i", "d", "r">>
S_cidr3   == <<"1", "0", ".", "0", ".", "0", "/", "1", "6">>

-----------------------------------------------------------------------------
(* envSchema and its validators (zod) *)

Issue(path, message) == [path |-> path, message |-> message]

\* z.enum(options) at key `path`
ZodEnum(path, v, options) ==
  IF v = UNDEFINED THEN <<Issue(path, "Required")>>
  ELSE IF v \notin options THEN <<Issue(path, "Invalid enum value")>>
  ELSE <<>>

\* z.string().min(n, message) at key `path`
ZodStringMin(path, v, n, message) ==
  IF ~IsString(v) THEN <<Issue(path, "Required")>>
  ELSE IF Len(v) < n THEN <<Issue(path, message)>>
  ELSE <<>>

\* z.string().regex(re, message) at key `path`; matches is re.test(v)
ZodStringRegex(path, v, matches, message) ==
  IF ~IsString(v) THEN <<Issue(path, "Required")>>
  ELSE IF ~matches THEN <<Issue(path, message)>>
  ELSE <<>>

\* the regular expression without its end anchor, /^\d{12}/
AccountIdRegexUnanchored(s) ==
  /\ Len(s) >= 12
  /\ \A i \in 1..12 : IsDigit(s[i])

\* /^\d{12}$/
AccountIdRegex(s) ==
  /\ Len(s) = 12
  /\ \A i \in 1..Len(s) : IsDigit(s[i])

\* \d{lo,hi} followed by the character sep, from position i of s, where n is
\* the length of the run of digits at i: the position after sep, or 0 when
\* there is no match
DigitsThenRun(s, i, n, lo, hi, sep) ==
  IF i > 0 /\ n >= lo /\ n <= hi /\ i + n <= Len(s) /\ s[i + n] = sep
  THEN i + n + 1 ELSE 0

DigitsThen(s, i, lo, hi, sep) == DigitsThenRun(s, i, DigitRun(s, i), lo, hi, sep)

\* (\d{1,3}\.){k} from position i of s: the position after it, or 0
RECURSIVE DottedGroups(_, _, _)
DottedGroups(s, i, k) ==
  IF k = 0 \/ i = 0 THEN i
  ELSE DottedGroups(s, DigitsThen(s, i, 1, 3, "."), k - 1)

\* \d{lo,hi}$ from position i of s, where n is the length of the run of digits at i
DigitsToEndRun(s, i, n, lo, hi) ==
  i > 0 /\ n >= lo /\ n <= hi /\ i + n = Len(s) + 1

DigitsToEnd(s, i, lo, hi) == DigitsToEndRun(s, i, DigitRun(s, i), lo, hi)

\* the run of n digits at position i of s writes a number of 0..255
OctetInRange(s, i, n) ==
  \/ n < 3
  \/ s[i] \in {"0", "1"}
  \/ s[i] = "2" /\ s[i + 1] \in {"0", "1", "2", "3", "4"}
  \/ s[i] = "2" /\ s[i + 1] = "5" /\ s[i + 2] \in {"0", "1", "2", "3", "4", "5"}

\* the run of n digits at position i of s writes a number of 0..32
MaskInRange(s, i, n) ==
  \/ n < 2
  \/ s[i] \in {"0", "1", "2"}
  \/ s[i] = "3" /\ s[i + 1] \in {"0", "1", "2"}

\* the four octets at p0..p3 and the mask at p4 are in range, given the syntax
RangesFrom(s, p0, p1, p2, p3, p4) ==
  /\ p4 > 0
  /\ DigitsToEnd(s, p4, 1, 2)
  /\ OctetInRange(s, p0, DigitRun(s, p0))
  /\ OctetInRange(s, p1, DigitRun(s, p1))
  /\ OctetInRange(s, p2, DigitRun(s, p2))
  /\ OctetInRange(s, p3, DigitRun(s, p3))
  /\ MaskInRange(s, p4, DigitRun(s, p4))

\* a validation that also checks each octet to be <= 255 and the mask <= 32
CidrRegexRanged(s) ==
  RangesFrom(s, 1, DottedGroups(s, 1, 1), DottedGroups(s, 1, 2), DottedGroups(s, 1, 3),
             DigitsThen(s, DottedGroups(s, 1, 3), 1, 3, "/"))

\* /^(\d{1,3}\.){3}\d{1,3}\/\d{1,2}$/
CidrRegex(s) ==
  DigitsToEnd(s, DigitsThen(s, DottedGroups(s, 1, 3), 1, 3, "/"), 1, 2)

Stages == {S_dev, S_stg, S_prod}

\* the outcome of schema.parse(input), given the issues found
ParseResult(input, issues) ==
  IF issues = <<>>
  THEN [success |-> TRUE, data |-> input, issues |-> <<>>]
  ELSE [success |-> FALSE, data |-> UNDEFINED, issues |-> issues]

\* the issues of the keys of envSchema, in the order of its shape
EnvIssues(input) ==
     ZodEnum("STAGE", input.STAGE, Stages)
  \o ZodStringMin("PROJECT", input.PROJECT, 1, "PROJECT is required")
  \o ZodStringMin("CDK_REGION", input.CDK_REGION, 1, "CDK_REGION is required")
  \o ZodStringRegex("CDK_ACCOUNT_ID", input.CDK_ACCOUNT_ID,
                    AccountIdRegex(input.CDK_ACCOUNT_ID),
                    "CDK_ACCOUNT_ID must be a 12-digit AWS account ID")
  \o ZodStringRegex("CIDR_BLOCK", input.CIDR_BLOCK,
                    CidrRegex(input.CIDR_BLOCK),
                    "CIDR_BLOCK must be valid CIDR notation")

\* a parse that stops at the first key that fails
envSchemaAbortEarly(input) ==
  ParseResult(input, SubSeq(EnvIssues(input), 1, 1))

\* envSchema.parse(input): the parsed object, or the issues of every key
envSchema(input) == ParseResult(input, EnvIssues(input))

-----------------------------------------------------------------------------
(* EnvironmentConfig *)

RequiredKeys == {"STAGE", "PROJECT", "CDK_REGION", "CDK_ACCOUNT_ID", "CIDR_BLOCK"}

InvalidConfigMessage ==
  "Invalid environment configuration. Please check your .env file."

ConsoleHeader == "Environment configuration validation failed:"

\* `  - ${err.path.join('.')}: ${err.message}`
ConsoleLine(err) == "  - " \o err.path \o ": " \o err.message

\* the constructor's try/catch around envSchema.parse, given its outcome
TryCatch(parsed) ==
  IF parsed.success
  THEN [ok |-> TRUE, config |-> parsed.data, error |-> "", log |-> <<>>]
  ELSE [ok |-> FALSE, config |-> UNDEFINED, error |-> InvalidConfigMessage,
        log |-> <<ConsoleHeader>>
                \o [i \in 1..Len(parsed.issues) |-> ConsoleLine(parsed.issues[i])]]

\* new EnvironmentConfig(): this.config, or the error thrown and the lines logged
Constructor(e) ==
  TryCatch(envSchema([STAGE          |-> e["STAGE"],
                      PROJECT        |-> e["PROJECT"],
                      CDK_REGION     |-> e["CDK_REGION"],
                      CDK_ACCOUNT_ID |-> e["CDK_ACCOUNT_ID"],
                      CIDR_BLOCK     |-> e["CIDR_BLOCK"]]))

-----------------------------------------------------------------------------
(* parseInt and vpcConfigSchema *)

NaN == [nan |-> TRUE, n |-> 0]

Num(n) == [nan |-> FALSE, n |-> n]

WhiteSpaceChars == {" ", "\t", "\n"}

HexLower == <<"0", "1", "2", "3", "4", "5", "6", "7", "8", "9",
              "a", "b", "c", "d", "e", "f">>

HexUpper == <<"0", "1", "2", "3", "4", "5", "6", "7", "8", "9",
              "A", "B", "C", "D", "E", "F">>

\* is c a digit of the given radix (10 or 16)
IsRadixDigit(c, radix) ==
  \E i \in 1..radix : HexLower[i] = c \/ HexUpper[i] = c

DigitValue(c) ==
  (CHOOSE i \in 1..Len(HexLower) : HexLower[i] = c \/ HexUpper[i] = c) - 1

\* the first position of s from i on that holds no white space
RECURSIVE SkipWhiteSpace(_, _)
SkipWhiteSpace(s, i) ==
  IF i <= Len(s) /\ s[i] \in WhiteSpaceChars THEN SkipWhiteSpace(s, i + 1) ELSE i

\* the value of the longest run of radix digits of s from position i on, given
\* the value acc of the digits before i; -1 when acc is -1 and the run is empty
RECURSIVE RadixValue(_, _, _, _)
RadixValue(s, i, radix, acc) ==
  IF i <= Len(s) /\ IsRadixDigit(s[i], radix)
  THEN RadixValue(s, i + 1, radix,
                  (IF acc < 0 THEN 0 ELSE acc) * radix + DigitValue(s[i]))
  ELSE acc

\* parseInt: the sign and the value of the digits make the number
SignedNumber(neg, value) ==
  IF value < 0 THEN NaN
  ELSE IF neg THEN Num(0 - value) ELSE Num(value)

\* parseInt: s from position i on, after the sign; a 0x or 0X prefix makes the radix 16
ParseUnsigned(s, i, neg) ==
  IF i + 1 <= Len(s) /\ s[i] = "0" /\ s[i + 1] \in {"x", "X"}
  THEN SignedNumber(neg, RadixValue(s, i + 2, 16, -1))
  ELSE SignedNumber(neg, RadixValue(s, i, 10, -1))

\* parseInt: s from position i on, after the leading white space
ParseSigned(s, i) ==
  IF i <= Len(s) /\ s[i] \in {"+", "-"}
  THEN ParseUnsigned(s, i + 1, s[i] = "-")
  ELSE ParseUnsigned(s, i, FALSE)

\* parseInt(s) of a string s, no radix given
parseInt(s) == ParseSigned(s, SkipWhiteSpace(s, 1))

\* z.number().min(lo) with the .max(hi) left out
ZodNumberNoMax(path, v, lo, hasMax, hi) ==
  IF v.nan THEN <<Issue(path, "Expected number, received nan")>>
  ELSE (IF v.n < lo
        THEN <<Issue(path, "Number must be greater than or equal to")>>
        ELSE <<>>)

\* z.number().min(lo).max(hi) with the upper limit taken as exclusive
ZodNumberMaxExclusive(path, v, lo, hasMax, hi) ==
  IF v.nan THEN <<Issue(path, "Expected number, received nan")>>
  ELSE (IF v.n < lo
        THEN <<Issue(path, "Number must be greater than or equal to")>>
        ELSE <<>>)
    \o (IF hasMax /\ v.n >= hi
        THEN <<Issue(path, "Number must be less than or equal to")>>
        ELSE <<>>)

\* z.number().min(lo) at key `path`, and .max(hi) when hasMax
ZodNumber(path, v, lo, hasMax, hi) ==
  IF v.nan THEN <<Issue(path, "Expected number, received nan")>>
  ELSE (IF v.n < lo
        THEN <<Issue(path, "Number must be greater than or equal to")>>
        ELSE <<>>)
    \o (IF hasMax /\ v.n > hi
        THEN <<Issue(path, "Number must be less than or equal to")>>
        ELSE <<>>)

\* vpcConfigSchema.parse(input); the .default() of maxAzs and natGateways never
\* applies, since parseInt gives a number to both
vpcConfigSchema(input) ==
  ParseResult(input,
       (IF IsString(input.cidrBlock) THEN <<>>
        ELSE <<Issue("cidrBlock", "Required")>>)
    \o ZodNumber("maxAzs", input.maxAzs, 1, TRUE, 3)
    \o ZodNumber("natGateways", input.natGateways, 0, FALSE, 0))

S_2        == <<"2">>
S_0        == <<"0">>
S_20       == <<"2", "0">>
S_true     == <<"t", "r", "u", "e">>
S_t3micro  == <<"t", "3", ".", "m", "i", "c", "r", "o">>
S_cdkapp   == <<"c", "d", "k", "a", "p", "p">>
S_postgres == <<"p", "o", "s", "t", "g", "r", "e", "s">>

-----------------------------------------------------------------------------
(* The getters of an EnvironmentConfig object o (an id of heap) *)

\* a prefix computed from process.env at the call, not from this.config
getPrefixFromEnv(o) == env["PROJECT"] \o <<"-">> \o env["STAGE"]

\* `${this.config.PROJECT}-${this.config.STAGE}`
getPrefix(o) == heap[o].PROJECT \o <<"-">> \o heap[o].STAGE

\* an environment whose prefix puts the stage first
getEnvironmentStageFirst(o) ==
  [stage   |-> heap[o].STAGE,
   project |-> heap[o].PROJECT,
   region  |-> heap[o].CDK_REGION,
   account |-> heap[o].CDK_ACCOUNT_ID,
   prefix  |-> heap[o].STAGE \o <<"-">> \o heap[o].PROJECT]

getEnvironment(o) ==
  [stage   |-> heap[o].STAGE,
   project |-> heap[o].PROJECT,
   region  |-> heap[o].CDK_REGION,
   account |-> heap[o].CDK_ACCOUNT_ID,
   prefix  |-> heap[o].PROJECT \o <<"-">> \o heap[o].STAGE]

get(o, key) == heap[o][key]

isProduction(o) == heap[o].STAGE = S_prod

\* development taken to be every stage but production
isDevelopmentNotProd(o) == heap[o].STAGE # S_prod

isDevelopment(o) == heap[o].STAGE = S_dev

\* what a call of schema.parse gives its caller: the object or a ZodError thrown
ParseOrThrow(parsed) ==
  IF parsed.success
  THEN [ok |-> TRUE, val |-> parsed.data]
  ELSE [ok |-> FALSE, val |-> [error |-> "ZodError", issues |-> parsed.issues]]

\* getVpcConfig() with the two variables taken for one another
getVpcConfigSwapped(o) ==
  ParseOrThrow(vpcConfigSchema(
    [cidrBlock   |-> heap[o].CIDR_BLOCK,
     maxAzs      |-> parseInt(OrElse(env["VPC_NAT_GATEWAYS"], S_2)),
     natGateways |-> parseInt(OrElse(env["VPC_MAX_AZS"], S_0))]))

\* the outcome of getVpcConfig(): the parsed object or the ZodError thrown
getVpcConfig(o) ==
  ParseOrThrow(vpcConfigSchema(
    [cidrBlock   |-> heap[o].CIDR_BLOCK,
     maxAzs      |-> parseInt(OrElse(env["VPC_MAX_AZS"], S_2)),
     natGateways |-> parseInt(OrElse(env["VPC_NAT_GATEWAYS"], S_0))]))

\* getRdsConfig() with the database name RdsConstruct falls back to
getRdsConfigAppdb(o) ==
  [instanceType     |-> OrElse(env["RDS_INSTANCE_TYPE"], S_t3micro),
   multiAz          |-> env["RDS_MULTI_AZ"] = S_true,
   allocatedStorage |-> parseInt(OrElse(env["RDS_STORAGE"], S_20)),
   dbName           |-> OrElse(env["RDS_DB_NAME"], <<"a", "p", "p", "d", "b">>),
   username         |-> OrElse(env["RDS_USERNAME"], S_postgres)]

\* getRdsConfig() that keeps the configuration derived before any override
getRdsConfigCached(o) ==
  [instanceType     |-> S_t3micro,
   multiAz          |-> FALSE,
   allocatedStorage |-> parseInt(S_20),
   dbName           |-> S_cdkapp,
   username         |-> S_postgres]

getRdsConfig(o) ==
  [instanceType     |-> OrElse(env["RDS_INSTANCE_TYPE"], S_t3micro),
   multiAz          |-> env["RDS_MULTI_AZ"] = S_true,
   allocatedStorage |-> parseInt(OrElse(env["RDS_STORAGE"], S_20)),
   dbName           |-> OrElse(env["RDS_DB_NAME"], S_cdkapp),
   username         |-> OrElse(env["RDS_USERNAME"], S_postgres)]

getEc2Config(o) ==
  [instanceType |-> OrElse(env["EC2_INSTANCE_TYPE"], S_t3micro),
   keyName      |-> env["EC2_KEY_NAME"]]

-----------------------------------------------------------------------------
(* The values process.env takes *)

S_3       == <<"3">>
S_1       == <<"1">>
S_4       == <<"4">>
S_abc     == <<"a", "b", "c">>
S_minus1  == <<"-", "1">>
S_50      == <<"5", "0">>
S_false   == <<"f", "a", "l", "s", "e">>
S_t3small == <<"t", "3", ".", "s", "m", "a", "l", "l">>
S_mydb    == <<"m", "y", "d", "b">>
S_admin   == <<"a", "d", "m", "i", "n">>
S_mykey   == <<"m", "y", "-", "k", "e", "y">>

OverrideKeys ==
  {"VPC_MAX_AZS", "VPC_NAT_GATEWAYS", "RDS_INSTANCE_TYPE", "RDS_MULTI_AZ",
   "RDS_STORAGE", "RDS_DB_NAME", "RDS_USERNAME", "EC2_INSTANCE_TYPE", "EC2_KEY_NAME"}

Keys == RequiredKeys \cup OverrideKeys

\* the values a test or the operator gives each variable (UNDEFINED: not set)
Values(k) ==
  CASE k = "STAGE"             -> {UNDEFINED, S_dev, S_stg, S_prod, S_invalid}
    [] k = "PROJECT"           -> {UNDEFINED, <<>>, S_project}
    [] k = "CDK_REGION"        -> {UNDEFINED, <<>>, S_region}
    [] k = "CDK_ACCOUNT_ID"    -> {UNDEFINED, S_acct3, S_acct12, S_acct13, S_acct12x}
    [] k = "CIDR_BLOCK"        -> {UNDEFINED, S_cidr, S_cidrBad, S_cidr3}
    [] k = "VPC_MAX_AZS"       -> {UNDEFINED, <<>>, S_0, S_3, S_4, S_abc}
    [] k = "VPC_NAT_GATEWAYS"  -> {UNDEFINED, S_1, S_minus1, S_abc}
    [] k = "RDS_INSTANCE_TYPE" -> {UNDEFINED, S_t3small}
    [] k = "RDS_MULTI_AZ"      -> {UNDEFINED, S_true, S_false}
    [] k = "RDS_STORAGE"       -> {UNDEFINED, S_50, S_abc}
    [] k = "RDS_DB_NAME"       -> {UNDEFINED, <<>>, S_mydb}
    [] k = "RDS_USERNAME"      -> {UNDEFINED, S_admin}
    [] k = "EC2_INSTANCE_TYPE" -> {UNDEFINED, S_t3small}
    [] k = "EC2_KEY_NAME"      -> {UNDEFINED, S_mykey}

\* the environment with the given required variables and no override set
EnvOf(stage, project, region, account, cidr) ==
  [k \in Keys |->
     CASE k = "STAGE"          -> stage
       [] k = "PROJECT"        -> project
       [] k = "CDK_REGION"     -> region
       [] k = "CDK_ACCOUNT_ID" -> account
       [] k = "CIDR_BLOCK"     -> cidr
       [] OTHER                -> UNDEFINED]

RequiredEnvs ==
  {EnvOf(stage, project, region, account, cidr) :
     stage \in Values("STAGE"), project \in Values("PROJECT"),
     region \in Values("CDK_REGION"), account \in Values("CDK_ACCOUNT_ID"),
     cidr \in Values("CIDR_BLOCK")}

-----------------------------------------------------------------------------
(* Calls *)

NoCall == [op |-> "none", this |-> 0, ok |-> TRUE, val |-> [none |-> TRUE]]

Returned(op, o, v) == [op |-> op, this |-> o, ok |-> TRUE, val |-> v]

Threw(op, o, v) == [op |-> op, this |-> o, ok |-> FALSE, val |-> v]

NoStackArgs == [none |-> TRUE]

NoEntryEnv == [none |-> TRUE]

NoConstruct == [none |-> TRUE]

\* the objects a caller can hold a reference to
Objects == 1..Len(heap)

\* a constructor that stores `this` in the static field before it validates
StoreInstanceBeforeValidation(inst, hp, c) ==
  IF c.ok
  THEN [instance |-> Len(hp) + 1, heap |-> Append(hp, c.config),
        ok |-> TRUE, val |-> [ref |-> Len(hp) + 1], log |-> c.log]
  ELSE [instance |-> Len(hp) + 1,
        heap |-> Append(hp, [k \in RequiredKeys |-> UNDEFINED]),
        ok |-> FALSE, val |-> [error |-> c.error], log |-> c.log]

\* getInstance() when the static field is undefined: the outcome c of
\* new EnvironmentConfig() is stored and returned, or its error propagates
StoreInstance(inst, hp, c) ==
  IF c.ok
  THEN [instance |-> Len(hp) + 1, heap |-> Append(hp, c.config),
        ok |-> TRUE, val |-> [ref |-> Len(hp) + 1], log |-> c.log]
  ELSE [instance |-> inst, heap |-> hp,
        ok |-> FALSE, val |-> [error |-> c.error], log |-> c.log]

\* getInstance() without the test of the static field
getInstanceAlwaysNew(inst, hp, e) == StoreInstance(inst, hp, Constructor(e))

\* EnvironmentConfig.getInstance() in the state (inst, hp) under environment e:
\* the static field and the objects afterwards, what the caller gets, the log
getInstance(inst, hp, e) ==
  IF inst = 0
  THEN StoreInstance(inst, hp, Constructor(e))
  ELSE [instance |-> inst, heap |-> hp,
        ok |-> TRUE, val |-> [ref |-> inst], log |-> <<>>]

constructVars == <<construct, aspects, outputs>>

appVars == <<tree, entryEnv, stackArgs, synthesized, constructVars>>

\* the effect of a getInstance() call with outcome r on the loader's state
GetInstanceEffect(r) ==
  /\ instance' = r.instance
  /\ heap' = r.heap
  /\ console' = r.log
  /\ ret' = [op |-> "getInstance", this |-> 0, ok |-> r.ok, val |-> r.val]
  /\ failures' = IF r.ok \/ failures = MaxFailures THEN failures ELSE failures + 1

\* an export that swallows the throw, so that the importer runs on
ExportEffectLenient(r) ==
  /\ envConfig' = (IF r.ok THEN r.val.ref ELSE envConfig)
  /\ pc' = "loaded"

\* the export of the outcome r of getInstance(); a throw fails the import
ExportEffect(r) ==
  IF r.ok
  THEN envConfig' = r.val.ref /\ pc' = "loaded"
  ELSE envConfig' = envConfig /\ pc' = "failed"

\* export const envConfig = EnvironmentConfig.getInstance(): the module is
\* evaluated when its first importer loads it
LoadModule ==
  /\ pc = "import"
  /\ GetInstanceEffect(getInstance(instance, heap, env))
  /\ ExportEffect(getInstance(instance, heap, env))
  /\ UNCHANGED <<env, resets, appVars>>

\* a caller's EnvironmentConfig.getInstance()
GetInstanceCall ==
  /\ pc = "loaded"
  /\ GetInstanceEffect(getInstance(instance, heap, env))
  /\ UNCHANGED <<env, envConfig, pc, resets, appVars>>

\* a getter that returns v and leaves the stage it read as 'prod' in this.env
GetterWriting(op, o, v) ==
  /\ pc = "loaded"
  /\ ret' = Returned(op, o, v)
  /\ console' = <<>>
  /\ heap' = [heap EXCEPT ![o] = [@ EXCEPT !["STAGE"] = S_prod]]
  /\ UNCHANGED <<env, instance, envConfig, pc, resets, failures, appVars>>

\* a getter that returns v, called on object o
Getter(op, o, v) ==
  /\ pc = "loaded"
  /\ ret' = Returned(op, o, v)
  /\ console' = <<>>
  /\ UNCHANGED <<env, instance, heap, envConfig, pc, resets, failures, appVars>>

GetEnvironmentCall == \E o \in Objects : Getter("getEnvironment", o, getEnvironment(o))

GetCall ==
  \E o \in Objects, key \in RequiredKeys : Getter("get", o, [key |-> key, str |-> get(o, key)])

GetPrefixCall == \E o \in Objects : Getter("getPrefix", o, [str |-> getPrefix(o)])

IsProductionCall == \E o \in Objects : Getter("isProduction", o, [bool |-> isProduction(o)])

IsDevelopmentCall == \E o \in Objects : Getter("isDevelopment", o, [bool |-> isDevelopment(o)])

\* a call whose outcome r is a value returned or an error thrown, on object o
Outcome(op, o, r) ==
  /\ pc = "loaded"
  /\ ret' = [op |-> op, this |-> o, ok |-> r.ok, val |-> r.val]
  /\ console' = <<>>
  /\ UNCHANGED <<env, instance, heap, envConfig, pc, resets, failures, appVars>>

GetVpcConfigCall == \E o \in Objects : Outcome("getVpcConfig", o, getVpcConfig(o))

GetRdsConfigCall == \E o \in Objects : Getter("getRdsConfig", o, getRdsConfig(o))

GetEc2ConfigCall == \E o \in Objects : Getter("getEc2Config", o, getEc2Config(o))

\* process.env[k] = v, or delete process.env[k] when v is UNDEFINED; the
\* caller has dropped the result of its last call by then
SetEnv(k, v) ==
  /\ pc = "loaded"
  /\ env[k] # v
  /\ env' = [env EXCEPT ![k] = v]
  /\ ret' = NoCall
  /\ console' = <<>>
  /\ UNCHANGED <<instance, heap, envConfig, pc, resets, failures, appVars>>

SetRequiredEnv == \E k \in RequiredKeys : \E v \in Values(k) : SetEnv(k, v)

SetOverrideEnv == \E k \in OverrideKeys : \E v \in Values(k) : SetEnv(k, v)

\* (EnvironmentConfig as any).instance = undefined, the tests' beforeEach
ResetInstance ==
  /\ pc = "loaded"
  /\ resets < MaxResets
  /\ instance' = 0
  /\ resets' = resets + 1
  /\ ret' = NoCall
  /\ console' = <<>>
  /\ UNCHANGED <<env, heap, envConfig, pc, failures, appVars>>

-----------------------------------------------------------------------------------------------------------------------------------------------------
(* The loader and its callers *)

\* the state before anything ran, with process.env e and the construct env c
InitOf(e, c) ==
  /\ env = e
  /\ instance = 0
  /\ heap = <<>>
  /\ envConfig = 0
  /\ pc = "import"
  /\ ret = NoCall
  /\ console = <<>>
  /\ resets = 0
  /\ failures = 0
  /\ tree = {}
  /\ entryEnv = NoEntryEnv
  /\ stackArgs = NoStackArgs
  /\ synthesized = FALSE
  /\ construct = c
  /\ aspects = <<>>
  /\ outputs = <<>>

InitWith(e) == InitOf(e, NoConstruct)

Init == \E e \in RequiredEnvs : InitWith(e)

Next ==
  \/ LoadModule
  \/ GetInstanceCall
  \/ GetEnvironmentCall
  \/ GetCall
  \/ GetPrefixCall
  \/ IsProductionCall
  \/ IsDevelopmentCall
  \/ GetVpcConfigCall
  \/ SetRequiredEnv

Spec == Init /\ [][Next]_vars

(* The loader under the tests, which reset the static instance field *)

NextHarness ==
  \/ LoadModule
  \/ GetInstanceCall
  \/ GetEnvironmentCall
  \/ SetRequiredEnv
  \/ ResetInstance

SpecHarness == Init /\ [][NextHarness]_vars

(* The derived configurations under changing overrides *)

InitOverrides ==
  \E cidr \in {S_cidr, S_cidr999} :
    InitWith(EnvOf(S_dev, S_project, S_region, S_acct12, cidr))

NextOverrides ==
  \/ LoadModule
  \/ GetVpcConfigCall
  \/ GetRdsConfigCall
  \/ GetEc2ConfigCall
  \/ SetOverrideEnv

SpecOverrides == InitOverrides /\ [][NextOverrides]_vars

-----------------------------------------------------------------------------
(* The application entry point, bin/cdk-init.ts, and new CdkInitStack *)

StackConstructs == {"CdkInitStack", "VpcConstruct", "RdsConstruct", "Ec2Construct"}

loaderVars == <<env, instance, heap, envConfig, resets, failures>>

\* const app = new cdk.App()
NewApp ==
  /\ pc = "loaded"
  /\ tree' = tree \cup {"App"}
  /\ pc' = "app"
  /\ ret' = NoCall
  /\ console' = <<>>
  /\ UNCHANGED <<loaderVars, entryEnv, stackArgs, synthesized, constructVars>>

\* const env = envConfig.getEnvironment()
ReadEnvironment ==
  /\ pc = "app"
  /\ entryEnv' = getEnvironment(envConfig)
  /\ pc' = "env"
  /\ ret' = Returned("getEnvironment", envConfig, getEnvironment(envConfig))
  /\ console' = <<>>
  /\ UNCHANGED <<loaderVars, tree, stackArgs, synthesized, constructVars>>

\* new CdkInitStack(app, `${env.prefix}-stack`, {env}), given the outcome vpc of
\* envConfig.getVpcConfig(): super() defines the stack, then the three
\* constructs are defined in turn unless getVpcConfig() throws
StackConstructor(vpc) ==
  IF vpc.ok
  THEN /\ tree' = tree \cup StackConstructs
       /\ stackArgs' = [id        |-> entryEnv.prefix \o <<"-", "s", "t", "a", "c", "k">>,
                        env       |-> entryEnv,
                        vpcConfig |-> vpc.val,
                        rdsConfig |-> getRdsConfig(envConfig),
                        ec2Config |-> getEc2Config(envConfig)]
       /\ ret' = NoCall
       /\ pc' = "stack"
  ELSE /\ tree' = tree \cup {"CdkInitStack"}
       /\ stackArgs' = stackArgs
       /\ ret' = Threw("getVpcConfig", envConfig, vpc.val)
       /\ pc' = "crashed"

NewCdkInitStack ==
  /\ pc = "env"
  /\ StackConstructor(getVpcConfig(envConfig))
  /\ console' = <<>>
  /\ UNCHANGED <<loaderVars, entryEnv, synthesized, constructVars>>

\* app.synth()
Synth ==
  /\ pc = "stack"
  /\ synthesized' = TRUE
  /\ pc' = "done"
  /\ ret' = NoCall
  /\ console' = <<>>
  /\ UNCHANGED <<loaderVars, tree, entryEnv, stackArgs, constructVars>>

InitApp ==
  \E e \in RequiredEnvs : \E azs \in {UNDEFINED, S_3, S_4} : \E nat \in {UNDEFINED, S_1} :
    InitWith([e EXCEPT !["VPC_MAX_AZS"] = azs, !["VPC_NAT_GATEWAYS"] = nat])

NextApp ==
  \/ LoadModule
  \/ NewApp
  \/ ReadEnvironment
  \/ NewCdkInitStack
  \/ Synth

SpecApp == InitApp /\ [][NextApp]_vars

-----------------------------------------------------------------------------
(* The load of the module on CIDR_BLOCK texts of many shapes *)

S_cidr5 == <<"1", ".", "2", ".", "3", ".", "4", ".", "5", "/", "6">>

CidrOctets ==
  {<<>>, <<"0">>, <<"1", "0">>, <<"2", "5", "6">>, <<"9", "9", "9">>,
   <<"1", "0", "0", "0">>, <<"a">>}

CidrMasks == {<<>>, <<"8">>, <<"3", "3">>, <<"9", "9">>, <<"1", "0", "0">>, <<"x">>}

\* texts o1 d o2 . 0 . o4 slash m tail, and texts with three and five groups
CidrInputs ==
  {o1 \o d \o o2 \o <<".", "0", ".">> \o o4 \o slash \o m \o tail :
     o1 \in CidrOctets, d \in {<<".">>, <<>>, <<"-">>},
     o2 \in {<<"0">>, <<"9", "9", "9">>}, o4 \in CidrOctets,
     slash \in {<<"/">>, <<>>, <<".">>}, m \in CidrMasks,
     tail \in {<<>>, <<"\n">>}}
  \cup {UNDEFINED, S_cidr, S_cidr999, S_cidrBad, S_cidr3, S_cidr5}

InitCidr ==
  \E cidr \in CidrInputs : InitWith(EnvOf(S_dev, S_project, S_region, S_acct12, cidr))

NextCidr ==
  \/ LoadModule
  \/ GetCall
  \/ GetVpcConfigCall

SpecCidr == InitCidr /\ [][NextCidr]_vars

-----------------------------------------------------------------------------
(* Every getter of the loader under changing overrides *)

InitGetters ==
  \E stage \in {S_dev, S_prod} :
    InitWith(EnvOf(stage, S_project, S_region, S_acct12, S_cidr))

NextGetters ==
  \/ LoadModule
  \/ GetEnvironmentCall
  \/ GetPrefixCall
  \/ IsProductionCall
  \/ IsDevelopmentCall
  \/ GetVpcConfigCall
  \/ GetRdsConfigCall
  \/ GetEc2ConfigCall
  \/ SetOverrideEnv

SpecGetters == InitGetters /\ [][NextGetters]_vars

-----------------------------------------------------------------------------
(* BaseConstruct (lib/shared/base.construct.ts), as a test or VpcConstruct   *)
(* uses it, and the tags of aws-cdk-lib it adds                              *)

\* the calls that define a tag or an output are followed up to this number
MaxOperations == 2

\* the IEnvironmentConfig the tests hand to a construct
TestEnv(stage) ==
  [stage   |-> stage,
   project |-> S_project,
   region  |-> S_region,
   account |-> S_acct12,
   prefix  |-> S_project \o <<"-">> \o stage]

ConstructEnvs == {TestEnv(S_dev), TestEnv(S_prod)}

\* a name with its white space dropped before it is joined to the prefix
getResourceNameTrimmed(e, name) ==
  e.prefix \o <<"-">> \o SelectSeq(name, LAMBDA c : c \notin WhiteSpaceChars)

\* `${this.env.prefix}-${name}`, with this.env = e
getResourceName(e, name) == e.prefix \o <<"-">> \o name

\* the common tags with the ManagedBy value of the stack's global tags
getCommonTagsAwsCdk(e) ==
  <<[key |-> "Environment", value |-> e.stage],
    [key |-> "Project",     value |-> e.project],
    [key |-> "ManagedBy",   value |-> <<"A", "W", "S", "-", "C", "D", "K">>],
    [key |-> "Prefix",      value |-> e.prefix]>>

\* the object getCommonTags() returns, as its entries in the order of its keys
getCommonTags(e) ==
  <<[key |-> "Environment", value |-> e.stage],
    [key |-> "Project",     value |-> e.project],
    [key |-> "ManagedBy",   value |-> <<"C", "D", "K">>],
    [key |-> "Prefix",      value |-> e.prefix]>>

\* a Tag aspect added at a scope of the construct tree
Tag(scope, key, value, includeResourceTypes, priority) ==
  [scope |-> scope, key |-> key, value |-> value,
   includeResourceTypes |-> includeResourceTypes, priority |-> priority]

\* applyTags(tags): Tags.of(this).add(key, value) per entry, at the priority
\* 100 aws-cdk-lib gives a tag by default
applyTags(tags) ==
  [i \in 1..Len(tags) |-> Tag("construct", tags[i].key, tags[i].value, {}, 100)]

\* a priority argument: not given, or the number n
NoPriority == [given |-> FALSE, n |-> 0]

Priority(n) == [given |-> TRUE, n |-> n]

\* applyTagsToResourceTypes that passes the priority on as it is, so that a
\* tag without one gets the default of aws-cdk-lib
applyTagsToResourceTypesNoDefault(config) ==
  Tag("construct", config.key, config.value,
      IF config.hasTypes THEN config.resourceTypes ELSE {},
      IF config.priority.given THEN config.priority.n ELSE 100)

\* applyTagsToResourceTypes(config): includeResourceTypes is
\* config.resourceTypes (none listed: every type), priority is
\* config.priority || 200
applyTagsToResourceTypes(config) ==
  Tag("construct", config.key, config.value,
      IF config.hasTypes THEN config.resourceTypes ELSE {},
      IF config.priority.given /\ config.priority.n # 0 THEN config.priority.n ELSE 200)

\* an ITagConfig
TagConfig(key, value, hasTypes, resourceTypes, priority) ==
  [key |-> key, value |-> value, hasTypes |-> hasTypes,
   resourceTypes |-> resourceTypes, priority |-> priority]

S_igw    == <<"i", "g", "w">>
S_nat    == <<"n", "a", "t">>
S_eipnat == <<"e", "i", "p", "-", "n", "a", "t">>
S_vpc    == <<"v", "p", "c">>

\* VpcConstruct.applyResourceTags() with vpcConfig.natGateways = nat: the tags
\* it adds through applyTagsToResourceTypes
applyResourceTags(e, nat) ==
  <<applyTagsToResourceTypes(TagConfig("Name", getResourceName(e, S_igw), TRUE,
                                       {"AWS::EC2::InternetGateway"}, Priority(300)))>>
  \o (IF nat > 0
      THEN <<applyTagsToResourceTypes(TagConfig("Name", getResourceName(e, S_nat), TRUE,
                                                {"AWS::EC2::NatGateway"}, Priority(300))),
             applyTagsToResourceTypes(TagConfig("Name", getResourceName(e, S_eipnat), TRUE,
                                                {"AWS::EC2::EIP"}, Priority(300)))>>
      ELSE <<>>)

\* a CfnOutput with the given id under the outputs outs, or 0
OutputWithId(outs, id) ==
  IF \E i \in 1..Len(outs) : outs[i].id = id
  THEN CHOOSE i \in 1..Len(outs) : outs[i].id = id
  ELSE 0

\* createOutput with the stage in place of the prefix in the default export name
createOutputProjectStage(outs, e, id, value, description, exportName) ==
  IF OutputWithId(outs, id) # 0
  THEN [ok |-> FALSE, outputs |-> outs]
  ELSE [ok |-> TRUE,
        outputs |-> Append(outs, [id |-> id, value |-> value, description |-> description,
                                  exportName |-> OrElse(exportName, e.stage \o <<"-">> \o id)])]

\* createOutput(id, value, description, exportName): new CfnOutput(this, id, ...)
\* throws when the construct has a child of that id, and defines the output
\* otherwise, exportName being exportName || `${this.env.prefix}-${id}`
createOutput(outs, e, id, value, description, exportName) ==
  IF OutputWithId(outs, id) # 0
  THEN [ok |-> FALSE, outputs |-> outs]
  ELSE [ok |-> TRUE,
        outputs |-> Append(outs, [id |-> id, value |-> value, description |-> description,
                                  exportName |-> OrElse(exportName, e.prefix \o <<"-">> \o id)])]

(* The tags of a resource, as aws-cdk-lib resolves them at synthesis *)

TagKeys ==
  {"Name", "Environment", "Project", "ManagedBy", "Prefix", "CustomTag", "ProjectID",
   "Repository"}

ResourceTypes ==
  {"AWS::EC2::VPC", "AWS::EC2::InternetGateway", "AWS::EC2::NatGateway", "AWS::EC2::EIP"}

NoTags == [k \in TagKeys |-> [set |-> FALSE, value |-> <<>>, priority |-> 0]]

\* the tag a applies to a resource of the given type
Applies(a, type) == a.includeResourceTypes = {} \/ type \in a.includeResourceTypes

\* TagManager.setTag: the tag replaces the one of its key unless that one has
\* a higher priority
setTag(tags, a) ==
  IF a.priority >= tags[a.key].priority
  THEN [tags EXCEPT ![a.key] = [set |-> TRUE, value |-> a.value, priority |-> a.priority]]
  ELSE tags

\* the aspects visit a resource in turn
RECURSIVE Visit(_, _, _)
Visit(asps, type, tags) ==
  IF asps = <<>> THEN tags
  ELSE Visit(Tail(asps), type,
             IF Applies(Head(asps), type) THEN setTag(tags, Head(asps)) ELSE tags)

\* the Name tag ec2.Vpc adds to itself and to what is under it: vpcName
VpcNameTag(e) == Tag("vpc", "Name", getResourceName(e, S_vpc), {}, 100)

\* the tags of the resource of the given type under the Vpc of the construct:
\* the aspects of the enclosing construct visit it before those of the Vpc
ResourceTags(asps, e, type) == Visit(Append(asps, VpcNameTag(e)), type, NoTags)

(* The calls on a construct *)

S_VpcId   == <<"V", "p", "c", "I", "d">>
S_RdsPort == <<"R", "d", "s", "P", "o", "r", "t">>
S_value   == <<"t", "e", "s", "t", "-", "v", "a", "l", "u", "e">>
S_desc    == <<"T", "e", "s", "t", " ", "d", "e", "s", "c">>
S_export  == <<"m", "y", "-", "e", "x", "p", "o", "r", "t">>
S_custom  == <<"C", "u", "s", "t", "o", "m", "V", "a", "l", "u", "e">>
S_Public1 == <<"P", "u", "b", "l", "i", "c", " ", "S", "u", "b", "n", "e", "t", "-", "1">>

LogicalNames == {S_vpc, S_igw, S_Public1}

TagConfigs ==
  {TagConfig("Name", S_custom, hasTypes, {"AWS::EC2::InternetGateway"}, priority) :
     hasTypes \in BOOLEAN,
     priority \in {NoPriority, Priority(0), Priority(50), Priority(300)}}

\* a call that leaves the construct as it is and returns v
ConstructGetter(op, v) ==
  /\ construct # NoConstruct
  /\ ret' = Returned(op, 0, v)
  /\ console' = <<>>
  /\ UNCHANGED <<loaderVars, pc, tree, entryEnv, stackArgs, synthesized, constructVars>>

GetResourceNameCall ==
  \E name \in LogicalNames :
    ConstructGetter("getResourceName", [name |-> name, str |-> getResourceName(construct, name)])

GetCommonTagsCall == ConstructGetter("getCommonTags", [tags |-> getCommonTags(construct)])

\* a call that adds the tags added to the aspects of the construct
AddTags(op, args, added) ==
  /\ construct # NoConstruct
  /\ Len(aspects) + Len(outputs) < MaxOperations
  /\ aspects' = aspects \o added
  /\ ret' = Returned(op, 0, args)
  /\ console' = <<>>
  /\ UNCHANGED <<loaderVars, pc, tree, entryEnv, stackArgs, synthesized, construct, outputs>>

ApplyTagsCall ==
  \E tags \in {getCommonTags(construct), <<[key |-> "CustomTag", value |-> S_custom]>>} :
    AddTags("applyTags", [tags |-> tags], applyTags(tags))

ApplyTagsToResourceTypesCall ==
  \E config \in TagConfigs :
    AddTags("applyTagsToResourceTypes", [config |-> config], <<applyTagsToResourceTypes(config)>>)

ApplyResourceTagsCall ==
  \E nat \in {0, 1} :
    AddTags("applyResourceTags", [natGateways |-> nat], applyResourceTags(construct, nat))

\* the effect of a createOutput call with outcome r
CreateOutputEffect(args, r) ==
  /\ outputs' = r.outputs
  /\ ret' = [op |-> "createOutput", this |-> 0, ok |-> r.ok, val |-> args]

CreateOutputCall ==
  \E id \in {S_VpcId, S_RdsPort}, description \in {UNDEFINED, S_desc},
     exportName \in {UNDEFINED, <<>>, S_export} :
    /\ construct # NoConstruct
    /\ Len(aspects) + Len(outputs) < MaxOperations
    /\ CreateOutputEffect([id |-> id, value |-> S_value, description |-> description,
                           exportName |-> exportName],
                          createOutput(outputs, construct, id, S_value, description, exportName))
    /\ console' = <<>>
    /\ UNCHANGED <<loaderVars, pc, tree, entryEnv, stackArgs, synthesized, construct, aspects>>

InitConstruct ==
  \E c \in ConstructEnvs : InitOf(EnvOf(S_dev, S_project, S_region, S_acct12, S_cidr), c)

NextConstruct ==
  \/ GetResourceNameCall
  \/ GetCommonTagsCall
  \/ ApplyTagsCall
  \/ ApplyTagsToResourceTypesCall
  \/ ApplyResourceTagsCall
  \/ CreateOutputCall

SpecConstruct == InitConstruct /\ [][NextConstruct]_vars

-----------------------------------------------------------------------------
(* VpcConstruct, RdsConstruct, Ec2Construct and the CdkInitStack they make *)

\* an optional number that is not given
NoNumber == [none |-> TRUE]

\* v || d of an optional number v
NumberOr(v, d) == IF v = NoNumber \/ v.nan \/ v.n = 0 THEN d ELSE v.n

\* vpcConfig.natGateways && vpcConfig.natGateways > 0
HasNatGateways(vpcConfig) == NumberOr(vpcConfig.natGateways, 0) > 0

\* getSubnetConfiguration() that has a private group only with NAT gateways
getSubnetConfigurationNatOnly(vpcConfig) ==
  <<[name |-> "public-subnet", subnetType |-> "PUBLIC", cidrMask |-> 24]>>
  \o (IF HasNatGateways(vpcConfig)
      THEN <<[name |-> "private-subnet", subnetType |-> "PRIVATE_WITH_EGRESS", cidrMask |-> 24]>>
      ELSE <<>>)

\* getSubnetConfiguration(): the public group, and the private group with
\* egress when NAT gateways are configured and isolated otherwise
getSubnetConfiguration(vpcConfig) ==
  <<[name |-> "public-subnet", subnetType |-> "PUBLIC", cidrMask |-> 24],
    [name |-> "private-subnet",
     subnetType |-> IF HasNatGateways(vpcConfig)
                    THEN "PRIVATE_WITH_EGRESS" ELSE "PRIVATE_ISOLATED",
     cidrMask |-> 24]>>

\* the properties createVpc() hands to new ec2.Vpc
createVpc(e, vpcConfig) ==
  [vpcName             |-> getResourceName(e, S_vpc),
   cidr                |-> vpcConfig.cidrBlock,
   natGateways         |-> NumberOr(vpcConfig.natGateways, 0),
   maxAzs              |-> NumberOr(vpcConfig.maxAzs, 2),
   subnetConfiguration |-> getSubnetConfiguration(vpcConfig)]

\* a scope of the construct tree: the stack, a construct of the stack, a child
\* of the construct, a subnet of the Vpc
Scope(construct_, child, group, az) ==
  [construct |-> construct_, child |-> child, group |-> group, az |-> az]

StackScope == Scope("", "", "", 0)

VpcScope == Scope("VpcConstruct", "Vpc", "", 0)

\* the subnets of the given type that ec2.Vpc makes of the properties vpc,
\* one per group of the type and availability zone
SubnetsOfType(vpc, subnetType) ==
  [i \in 1..(IF \E g \in 1..Len(vpc.subnetConfiguration) :
                  vpc.subnetConfiguration[g].subnetType = subnetType
             THEN vpc.maxAzs ELSE 0) |->
     [scope |-> Scope("VpcConstruct", "Vpc", subnetType, i),
      subnetType |-> subnetType, availabilityZone |-> i]]

\* vpc.publicSubnets, vpc.privateSubnets and vpc.isolatedSubnets
publicSubnets(vpc) == SubnetsOfType(vpc, "PUBLIC")

privateSubnets(vpc) == SubnetsOfType(vpc, "PRIVATE_WITH_EGRESS")

isolatedSubnets(vpc) == SubnetsOfType(vpc, "PRIVATE_ISOLATED")

\* subnet.availabilityZone of the i-th zone of the stack
AzName(i) == <<"d", "u", "m", "m", "y", "1">> \o <<<<"a", "b", "c">>[i]>>

\* tagSubnets(subnets, subnetType): a Name tag of priority 300 on every subnet
\* and one on its route table
RECURSIVE tagSubnets(_, _, _)
tagSubnets(e, subnets, subnetType) ==
  IF subnets = <<>> THEN <<>>
  ELSE <<Tag(Head(subnets).scope, "Name",
             getResourceName(e, subnetType \o <<"-", "s", "u", "b", "n", "e", "t", "-">>
                                  \o AzName(Head(subnets).availabilityZone)),
             {"AWS::EC2::Subnet"}, 300),
         Tag(Head(subnets).scope, "Name",
             getResourceName(e, subnetType \o <<"-", "r", "t", "-">>
                                  \o AzName(Head(subnets).availabilityZone)),
             {"AWS::EC2::RouteTable"}, 300)>>
       \o tagSubnets(e, Tail(subnets), subnetType)

\* setupNetworking(): tagSubnets on vpc.publicSubnets and on vpc.privateSubnets
setupNetworking(e, vpc) ==
  tagSubnets(e, publicSubnets(vpc), <<"p", "u", "b", "l", "i", "c">>)
  \o tagSubnets(e, privateSubnets(vpc), <<"p", "r", "i", "v", "a", "t", "e">>)

\* the tags the sequence tags holds, added at the given scope
TagsAt(scope, tags) == [i \in 1..Len(tags) |-> [tags[i] EXCEPT !.scope = scope]]

\* the Name tag ec2.Subnet adds to itself: the path of the subnet
RECURSIVE SubnetNameTags(_)
SubnetNameTags(subnets) ==
  IF subnets = <<>> THEN <<>>
  ELSE <<Tag(Head(subnets).scope, "Name",
             <<"V", "p", "c", "/">> \o AzName(Head(subnets).availabilityZone), {}, 100)>>
       \o SubnetNameTags(Tail(subnets))

\* the tags new ec2.Vpc adds: vpcName on what is under it, the path on a subnet
VpcTags(e, vpc) ==
  TagsAt(VpcScope, <<VpcNameTag(e)>>)
  \o SubnetNameTags(publicSubnets(vpc) \o privateSubnets(vpc) \o isolatedSubnets(vpc))
ConstructScope(id) == Scope(id, "", "", 0)

\* the tags VpcConstruct adds, in the order of its constructor
VpcConstructTags(e, vpcConfig) ==
  VpcTags(e, createVpc(e, vpcConfig))
  \o TagsAt(ConstructScope("VpcConstruct"), applyTags(getCommonTags(e)))
  \o setupNetworking(e, createVpc(e, vpcConfig))
  \o TagsAt(ConstructScope("VpcConstruct"),
            applyResourceTags(e, NumberOr(vpcConfig.natGateways, 0)))

\* the outputs under the scope among the outputs outs of the stack
OutputsUnder(outs, scope) ==
  [i \in 1..Len(SelectSeq(outs, LAMBDA o : o.scope = scope)) |->
     SelectSeq(outs, LAMBDA o : o.scope = scope)[i].out]

\* the createOutput calls of a createOutputs(), one per entry of list, on the
\* construct at scope; the value of an output is a token of the template
RECURSIVE createOutputs(_, _, _, _)
createOutputs(outs, e, scope, list) ==
  IF list = <<>> THEN [ok |-> TRUE, outputs |-> outs]
  ELSE IF createOutput(OutputsUnder(outs, scope), e, Head(list).id, <<"$">> \o Head(list).id,
                       Head(list).description, UNDEFINED).ok
       THEN createOutputs(
              Append(outs,
                     [scope |-> scope,
                      out   |-> createOutput(<<>>, e, Head(list).id, <<"$">> \o Head(list).id,
                                             Head(list).description, UNDEFINED).outputs[1]]),
              e, scope, Tail(list))
       ELSE [ok |-> FALSE, outputs |-> outs]

VpcOutputs ==
  <<[id |-> <<"V", "p", "c", "I", "d">>,
     description |-> <<"T", "h", "e", " ", "I", "D", " ", "o", "f", " ", "t", "h", "e", " ", "V", "P", "C">>],
    [id |-> <<"V", "p", "c", "C", "i", "d", "r">>,
     description |-> <<"T", "h", "e", " ", "C", "I", "D", "R", " ", "b", "l", "o", "c", "k", " ", "o", "f", " ", "t", "h", "e", " ", "V", "P", "C">>],
    [id |-> <<"P", "u", "b", "l", "i", "c", "S", "u", "b", "n", "e", "t", "I", "d", "s">>,
     description |-> <<"C", "o", "m", "m", "a", "-", "s", "e", "p", "a", "r", "a", "t", "e", "d", " ", "l", "i", "s", "t", " ", "o", "f", " ", "p", "u", "b", "l", "i", "c", " ", "s", "u", "b", "n", "e", "t", " ", "I", "D", "s">>],
    [id |-> <<"P", "r", "i", "v", "a", "t", "e", "S", "u", "b", "n", "e", "t", "I", "d", "s">>,
     description |-> <<"C", "o", "m", "m", "a", "-", "s", "e", "p", "a", "r", "a", "t", "e", "d", " ", "l", "i", "s", "t", " ", "o", "f", " ", "p", "r", "i", "v", "a", "t", "e", " ", "s", "u", "b", "n", "e", "t", " ", "I", "D", "s">>],
    [id |-> <<"A", "v", "a", "i", "l", "a", "b", "i", "l", "i", "t", "y", "Z", "o", "n", "e", "s">>,
     description |-> <<"C", "o", "m", "m", "a", "-", "s", "e", "p", "a", "r", "a", "t", "e", "d", " ", "l", "i", "s", "t", " ", "o", "f", " ", "a", "v", "a", "i", "l", "a", "b", "i", "l", "i", "t", "y", " ", "z", "o", "n", "e", "s">>]>>

RdsOutputs ==
  <<[id |-> <<"R", "d", "s", "E", "n", "d", "p", "o", "i", "n", "t">>,
     description |-> <<"R", "D", "S", " ", "E", "n", "d", "p", "o", "i", "n", "t", " ", "A", "d", "d", "r", "e", "s", "s">>],
    [id |-> <<"R", "d", "s", "P", "o", "r", "t">>,
     description |-> <<"R", "D", "S", " ", "P", "o", "r", "t">>],
    [id |-> <<"R", "d", "s", "S", "e", "c", "r", "e", "t", "N", "a", "m", "e">>,
     description |-> <<"R", "D", "S", " ", "S", "e", "c", "r", "e", "t", " ", "N", "a", "m", "e">>]>>

\* the outputs of Ec2Construct with an id that VpcConstruct uses as well
Ec2OutputsVpcId ==
  <<[id |-> <<"E", "c", "2", "P", "r", "i", "v", "a", "t", "e", "I", "p">>,
     description |-> <<"E", "C", "2", " ", "P", "r", "i", "v", "a", "t", "e", " ", "I", "P">>],
    [id |-> <<"V", "p", "c", "I", "d">>,
     description |-> <<"E", "C", "2", " ", "P", "u", "b", "l", "i", "c", " ", "I", "P">>]>>

Ec2Outputs ==
  <<[id |-> <<"E", "c", "2", "P", "r", "i", "v", "a", "t", "e", "I", "p">>,
     description |-> <<"E", "C", "2", " ", "P", "r", "i", "v", "a", "t", "e", " ", "I", "P">>],
    [id |-> <<"E", "c", "2", "P", "u", "b", "l", "i", "c", "I", "p">>,
     description |-> <<"E", "C", "2", " ", "P", "u", "b", "l", "i", "c", " ", "I", "P">>]>>

\* createDatabase() that looks for private subnets with egress always
createDatabaseWithEgress(e, vpc, config) ==
  [username           |-> OrElse(config.username, S_postgres),
   subnetType         |-> "PRIVATE_WITH_EGRESS",
   instanceIdentifier |-> getResourceName(e, <<"r", "d", "s", "-", "i", "n", "s", "t", "a", "n", "c", "e">>),
   databaseName       |-> OrElse(config.dbName, <<"a", "p", "p", "d", "b">>),
   instanceType       |-> config.instanceType,
   multiAz            |-> config.multiAz,
   allocatedStorage   |-> config.allocatedStorage]

\* the properties createDatabase() hands to new rds.DatabaseInstance
createDatabase(e, vpc, config) ==
  [username           |-> OrElse(config.username, S_postgres),
   subnetType         |-> IF Len(privateSubnets(vpc)) > 0
                          THEN "PRIVATE_WITH_EGRESS" ELSE "PRIVATE_ISOLATED",
   instanceIdentifier |-> getResourceName(e, <<"r", "d", "s", "-", "i", "n", "s", "t", "a", "n", "c", "e">>),
   databaseName       |-> OrElse(config.dbName, <<"a", "p", "p", "d", "b">>),
   instanceType       |-> config.instanceType,
   multiAz            |-> config.multiAz,
   allocatedStorage   |-> config.allocatedStorage]

\* vpc.selectSubnets({subnetType}).subnets
selectSubnets(vpc, subnetType) == SubnetsOfType(vpc, subnetType)

\* the properties createInstance() hands to new ec2.Instance
createInstance(e, config) ==
  [subnetType   |-> "PUBLIC",
   instanceType |-> config.instanceType,
   instanceName |-> getResourceName(e, <<"e", "c", "2">>),
   keyName      |-> config.keyName]

\* the Name tag ec2.Instance adds to itself: instanceName
InstanceNameTag(e, config) ==
  Tag(Scope("Ec2Construct", "Ec2Instance", "", 0), "Name",
      createInstance(e, config).instanceName, {}, 100)

\* the tags of the `tags` of super(scope, id, {...}), added to the stack
StackTags(e) ==
  TagsAt(StackScope,
         applyTags(<<[key |-> "Environment", value |-> e.stage],
                     [key |-> "Project",     value |-> e.project],
                     [key |-> "ManagedBy",   value |-> <<"C", "D", "K">>]>>))

\* the one tag the stack of the services adds
applyGlobalTagsProjectID(e) ==
  TagsAt(StackScope, applyTags(<<[key |-> "ProjectID", value |-> e.prefix]>>))

\* applyGlobalTags(env): four Tags.of(this).add on the stack
applyGlobalTags(e) ==
  TagsAt(StackScope,
         applyTags(<<[key |-> "ProjectID",   value |-> e.prefix],
                     [key |-> "Environment", value |-> e.stage],
                     [key |-> "ManagedBy",   value |-> <<"A", "W", "S", "-", "C", "D", "K">>],
                     [key |-> "Repository",  value |-> <<"c", "d", "k", "-", "i", "n", "i", "t">>]>>))

\* what there is after new VpcConstruct(stack, 'VpcConstruct', e, vpcConfig)
\* under a stack that has the tags stackTags
VpcConstruct(stackTags, e, vpcConfig) ==
  [ok      |-> TRUE,
   tree    |-> {"VpcConstruct"},
   aspects |-> stackTags \o VpcConstructTags(e, vpcConfig),
   outputs |-> createOutputs(<<>>, e, ConstructScope("VpcConstruct"), VpcOutputs).outputs,
   args    |-> [env |-> e, vpcConfig |-> vpcConfig, vpc |-> createVpc(e, vpcConfig)]]

\* what there is after new RdsConstruct(stack, 'RdsConstruct', e, vpc, config)
\* on what there was, s: new rds.DatabaseInstance throws when the Vpc has no
\* subnet of the type asked for
RdsConstruct(s, e, config) ==
  IF selectSubnets(s.args.vpc, createDatabase(e, s.args.vpc, config).subnetType) = <<>>
  THEN [s EXCEPT !.ok = FALSE, !.tree = @ \cup {"RdsConstruct"}]
  ELSE [ok      |-> TRUE,
        tree    |-> s.tree \cup {"RdsConstruct"},
        aspects |-> s.aspects
                    \o TagsAt(ConstructScope("RdsConstruct"), applyTags(getCommonTags(e))),
        outputs |-> createOutputs(s.outputs, e, ConstructScope("RdsConstruct"),
                                  RdsOutputs).outputs,
        args    |-> [env |-> s.args.env, vpcConfig |-> s.args.vpcConfig, vpc |-> s.args.vpc,
                     rdsEnv |-> e, rdsConfig |-> config,
                     rds |-> createDatabase(e, s.args.vpc, config)]]

\* what there is after new Ec2Construct(stack, 'Ec2Construct', e, vpc, config)
Ec2Construct(s, e, config) ==
  IF ~s.ok THEN s
  ELSE [ok      |-> TRUE,
        tree    |-> s.tree \cup {"Ec2Construct"},
        aspects |-> s.aspects
                    \o <<InstanceNameTag(e, config)>>
                    \o TagsAt(ConstructScope("Ec2Construct"), applyTags(getCommonTags(e))),
        outputs |-> createOutputs(s.outputs, e, ConstructScope("Ec2Construct"),
                                  Ec2Outputs).outputs,
        args    |-> [env |-> s.args.env, vpcConfig |-> s.args.vpcConfig, vpc |-> s.args.vpc,
                     rdsEnv |-> s.args.rdsEnv, rdsConfig |-> s.args.rdsConfig,
                     rds |-> s.args.rds, ec2 |-> createInstance(e, config)]]

\* the global tags come last
WithGlobalTags(s, e) ==
  IF ~s.ok THEN s
  ELSE [s EXCEPT !.tree = @ \cup {"CdkInitStack"}, !.aspects = @ \o applyGlobalTags(e)]

\* new CdkInitStack(app, id, {env: e}) of the version with constructs, given
\* the configurations read from envConfig
CdkInitStack(e, vpcConfig, rdsConfig, ec2Config) ==
  WithGlobalTags(
    Ec2Construct(RdsConstruct(VpcConstruct(StackTags(e), e, vpcConfig), e, rdsConfig),
                 e, ec2Config),
    e)

(* The resources of the template and their tags *)

Resource(scope, type) == [scope |-> scope, type |-> type]

\* the resources new ec2.Vpc defines: the VPC, the internet gateway, a subnet
\* and a route table per subnet, a NAT gateway with its address in the first
\* natGateways public subnets
VpcResources(vpc) ==
  {Resource(VpcScope, "AWS::EC2::VPC"), Resource(VpcScope, "AWS::EC2::InternetGateway")}
  \cup {Resource(s.scope, type) :
          s \in {(publicSubnets(vpc) \o privateSubnets(vpc) \o isolatedSubnets(vpc))[i] :
                   i \in 1..Len(publicSubnets(vpc) \o privateSubnets(vpc)
                                \o isolatedSubnets(vpc))},
          type \in {"AWS::EC2::Subnet", "AWS::EC2::RouteTable"}}
  \cup {Resource(publicSubnets(vpc)[i].scope, type) :
          i \in {j \in 1..Len(publicSubnets(vpc)) : j <= vpc.natGateways},
          type \in {"AWS::EC2::NatGateway", "AWS::EC2::EIP"}}

RdsResources ==
  {Resource(Scope("RdsConstruct", "RdsSecurityGroup", "", 0), "AWS::EC2::SecurityGroup"),
   Resource(Scope("RdsConstruct", "RdsInstance", "", 0), "AWS::RDS::DBInstance"),
   Resource(Scope("RdsConstruct", "RdsInstance", "", 0), "AWS::RDS::DBSubnetGroup"),
   Resource(Scope("RdsConstruct", "RdsInstance", "", 0), "AWS::SecretsManager::Secret")}

Ec2Resources ==
  {Resource(Scope("Ec2Construct", "Ec2SecurityGroup", "", 0), "AWS::EC2::SecurityGroup"),
   Resource(Scope("Ec2Construct", "Ec2Role", "", 0), "AWS::IAM::Role"),
   Resource(Scope("Ec2Construct", "Ec2Instance", "", 0), "AWS::EC2::Instance")}

\* the taggable resources of the constructs of the set t, args being the
\* arguments they were made with
ResourcesOf(t, args) ==
  (IF "VpcConstruct" \in t THEN VpcResources(args.vpc) ELSE {})
  \cup (IF "RdsConstruct" \in t THEN RdsResources ELSE {})
  \cup (IF "Ec2Construct" \in t THEN Ec2Resources ELSE {})

\* the scope a is the scope s or one that encloses it
Encloses(a, s) ==
  /\ a.construct \in {"", s.construct}
  /\ a.child \in {"", s.child}
  /\ a.group = "" \/ (a.group = s.group /\ a.az = s.az)

\* how deep in the tree a scope is
Depth(a) ==
  IF a.construct = "" THEN 0 ELSE IF a.child = "" THEN 1 ELSE IF a.group = "" THEN 2 ELSE 3

\* the aspects that visit what is at scope s, those of an enclosing scope
\* before those of the scopes it encloses
RECURSIVE AspectsOn(_, _, _)
AspectsOn(asps, s, depth) ==
  IF depth > 3 THEN <<>>
  ELSE SelectSeq(asps, LAMBDA a : Depth(a.scope) = depth /\ Encloses(a.scope, s))
       \o AspectsOn(asps, s, depth + 1)

\* the tags of a resource in the template
TagsOf(asps, resource) == Visit(AspectsOn(asps, resource.scope, 0), resource.type, NoTags)

(* The stack and the constructs, made and synthesized *)

S_other == <<"o", "t", "h", "e", "r">>

\* the environments handed to a stack or a construct: that of the snapshot,
\* as the entry point does, the objects the tests write, and one whose prefix
\* is another text
EnvsOf(o) ==
  {getEnvironment(o)} \cup ConstructEnvs \cup {[TestEnv(S_dev) EXCEPT !.prefix = S_other]}

\* the IVpcConfig objects handed to a VpcConstruct
VpcConfigs ==
  {[cidrBlock |-> S_cidr, maxAzs |-> maxAzs, natGateways |-> natGateways] :
     maxAzs \in {NoNumber, Num(1), Num(3)},
     natGateways \in {NoNumber, NaN, Num(0), Num(1), Num(2)}}

\* the IRdsConfig objects handed to an RdsConstruct
RdsConfigs ==
  {[instanceType |-> S_t3micro, multiAz |-> FALSE, allocatedStorage |-> Num(20),
    dbName |-> dbName, username |-> username] :
     dbName \in {UNDEFINED, S_mydb}, username \in {UNDEFINED, <<"u">>}}

\* the stack and the constructs s are there: the state after the constructor
Built(s, next) ==
  /\ tree' = s.tree \cup {"App"}
  /\ aspects' = s.aspects
  /\ outputs' = s.outputs
  /\ stackArgs' = s.args
  /\ pc' = (IF s.ok THEN next ELSE "crashed")
  /\ ret' = NoCall
  /\ console' = <<>>
  /\ UNCHANGED <<loaderVars, entryEnv, synthesized, construct>>

\* new CdkInitStack(app, id, {env: e}): the configurations are read from
\* the exported envConfig, and getVpcConfig() can throw
NewStackOfConstructs ==
  /\ pc = "loaded"
  /\ \E e \in EnvsOf(envConfig) :
       IF getVpcConfig(envConfig).ok
       THEN Built(CdkInitStack(e, getVpcConfig(envConfig).val, getRdsConfig(envConfig),
                               getEc2Config(envConfig)), "stack")
       ELSE /\ tree' = {"App", "CdkInitStack"}
            /\ pc' = "crashed"
            /\ ret' = Threw("getVpcConfig", envConfig, getVpcConfig(envConfig).val)
            /\ console' = <<>>
            /\ UNCHANGED <<loaderVars, entryEnv, stackArgs, synthesized, constructVars>>

\* new VpcConstruct(stack, 'VpcConstruct', env, vpcConfig) on a stack without tags
NewVpcConstruct ==
  /\ pc = "loaded"
  /\ \E e \in EnvsOf(envConfig), vpcConfig \in VpcConfigs :
       Built(VpcConstruct(<<>>, e, vpcConfig), "vpc")

\* new RdsConstruct(stack, 'RdsConstruct', env, vpc, rdsConfig) on that stack
NewRdsConstruct ==
  /\ pc = "vpc"
  /\ \E config \in RdsConfigs :
       Built(RdsConstruct([ok |-> TRUE, tree |-> tree, aspects |-> aspects,
                           outputs |-> outputs, args |-> stackArgs],
                          stackArgs.env, config), "rds")

\* Template.fromStack(stack)
TemplateFromStack ==
  /\ pc \in {"vpc", "rds"}
  /\ synthesized' = TRUE
  /\ pc' = "done"
  /\ ret' = NoCall
  /\ console' = <<>>
  /\ UNCHANGED <<loaderVars, tree, entryEnv, stackArgs, constructVars>>

InitStack ==
  \E stage \in {S_dev, S_prod}, azs \in {UNDEFINED, S_3, S_4},
     nat \in {UNDEFINED, S_0, S_1, S_3}, db \in {UNDEFINED, S_mydb} :
    InitWith([EnvOf(stage, S_project, S_region, S_acct12, S_cidr)
                EXCEPT !["VPC_MAX_AZS"] = azs, !["VPC_NAT_GATEWAYS"] = nat,
                       !["RDS_DB_NAME"] = db])

NextStack ==
  \/ LoadModule
  \/ NewStackOfConstructs
  \/ NewVpcConstruct
  \/ NewRdsConstruct
  \/ Synth
  \/ TemplateFromStack

SpecStack == InitStack /\ [][NextStack]_vars

\* the template of the state: its resources, when a stack stands
Resources ==
  IF pc \in {"stack", "vpc", "rds", "done"} THEN ResourcesOf(tree, stackArgs) ELSE {}

-----------------------------------------------------------------------------
(* The CloudFront function on viewer requests, cloudfront-functions/authorized *)

\* var key
ApiKey == <<"L", "z", "d", "W", "G", "p", "A", "T", "o", "Q", "1", "D", "q", "Y", "u", "z", "H", "x", "E", "6", "Y", "O", "q", "i", "7", "G", "3", "X", "2", "y", "v", "N", "B", "o", "t", "9", "m", "C", "X", "f", "x", "5", "k">>

\* var response
ForbiddenResponse ==
  [statusCode        |-> 403,
   statusDescription |-> <<"F", "o", "r", "b", "i", "d", "d", "e", "n">>,
   body              |-> <<"{", "\"", "m", "e", "s", "s", "a", "g", "e", "\"", ":", "\"", "A", "c", "c", "e", "s", "s", " ", "d", "e", "n", "i", "e", "d", "\"", "}">>]

\* request.querystring[name] of a name the query string does not have
NoParam == [none |-> TRUE]

\* a handler that forwards every request that has a value for x-api-key
handlerAnyValue(event) ==
  IF \/ event.request.querystring["x-api-key"] = NoParam
     \/ event.request.querystring["x-api-key"].value = <<>>
  THEN [forwarded |-> FALSE, response |-> ForbiddenResponse]
  ELSE [forwarded |-> TRUE, request |-> event.request]

\* handler(event): the response object is returned when
\* !apikeyValue || !apikeyValue['value'] || apikeyValue['value'] !== key,
\* and event.request otherwise
handler(event) ==
  IF \/ event.request.querystring["x-api-key"] = NoParam
     \/ ~Truthy(event.request.querystring["x-api-key"].value)
     \/ event.request.querystring["x-api-key"].value # ApiKey
  THEN [forwarded |-> FALSE, response |-> ForbiddenResponse]
  ELSE [forwarded |-> TRUE, request |-> event.request]

\* the values a viewer sends for x-api-key: none, the empty one, the key, the
\* key with a character more, less or in the other case, and another text
ApiKeyValues ==
  {<<>>, ApiKey, ApiKey \o <<"k">>, SubSeq(ApiKey, 1, Len(ApiKey) - 1),
   <<"l">> \o Tail(ApiKey), S_abc, <<" ">> \o ApiKey}

\* the viewer request events
Events ==
  {[request |-> [method |-> method, uri |-> uri,
                 querystring |-> [k \in {"x-api-key", "X-Api-Key", "page"} |->
                                    CASE k = "x-api-key" -> apikey
                                      [] k = "X-Api-Key" -> other
                                      [] k = "page"      -> page]]] :
     method \in {"GET", "HEAD", "OPTIONS"},
     uri \in {<<"/">>, <<"/", "a">>},
     apikey \in {NoParam} \cup {[value |-> v] : v \in ApiKeyValues},
     other \in {NoParam, [value |-> ApiKey]},
     page \in {NoParam, [value |-> S_1]}}

\* CloudFront runs the function on a viewer request
ViewerRequest ==
  \E event \in Events :
    /\ ret' = Returned("handler", 0, [event |-> event, result |-> handler(event)])
    /\ console' = <<>>
    /\ UNCHANGED <<loaderVars, pc, appVars>>

InitViewer == InitWith(EnvOf(S_dev, S_project, S_region, S_acct12, S_cidr))

NextViewer == ViewerRequest

SpecViewer == InitViewer /\ [][NextViewer]_vars

-----------------------------------------------------------------------------
(* Claims about the loader's lifecycle *)

\* the call that has just returned is getInstance()
GetInstanceReturned == ret.op = "getInstance"

\* C1: while the static instance field is not reset from outside, at most one
\* construction succeeds, and every getInstance() call that returns, from the
\* first successful one on, returns that one instance, whatever process.env
\* holds at the later calls.
Thm_C1 ==
  [][resets' = resets =>
       /\ instance # 0 => (instance' = instance /\ heap' = heap)
       /\ Len(heap') <= Len(heap) + 1
       /\ (GetInstanceReturned' /\ ret'.ok) =>
            /\ ret'.val.ref = instance'
            /\ instance # 0 => ret'.val.ref = instance]_vars

\* a getInstance() call returned the stored instance under an environment
\* that would not pass validation
Wit_C1 ==
  /\ GetInstanceReturned /\ ret.ok
  /\ instance # 0 /\ ret.val.ref = instance
  /\ env["STAGE"] = S_invalid /\ env["CDK_ACCOUNT_ID"] = UNDEFINED

\* the positions of s that hold no decimal digit
Separators(s) == {i \in 1..Len(s) : s[i] \notin {"0", "1", "2", "3", "4", "5", "6", "7", "8", "9"}}

\* s reads a.b.c.d/n, a to d of one to three digits and n of one or two: the
\* four separators of s are three dots and then a slash, and they cut s into
\* five runs of digits of these lengths
IsCidrSyntax(s) ==
  /\ Cardinality(Separators(s)) = 4
  /\ \E p1, p2, p3, p4 \in Separators(s) :
       /\ p1 < p2 /\ p2 < p3 /\ p3 < p4
       /\ s[p1] = "." /\ s[p2] = "." /\ s[p3] = "." /\ s[p4] = "/"
       /\ p1 - 1 \in 1..3 /\ p2 - p1 - 1 \in 1..3
       /\ p3 - p2 - 1 \in 1..3 /\ p4 - p3 - 1 \in 1..3
       /\ Len(s) - p4 \in 1..2

\* the input v of variable k is valid, as the specification states it
ValidInput(k, v) ==
  /\ v # UNDEFINED
  /\ CASE k = "STAGE"          -> v \in {S_dev, S_stg, S_prod}
       [] k = "PROJECT"        -> Len(v) >= 1
       [] k = "CDK_REGION"     -> Len(v) >= 1
       [] k = "CDK_ACCOUNT_ID" -> Len(v) = 12 /\ Separators(v) = {}
       [] k = "CIDR_BLOCK"     -> IsCidrSyntax(v)

InvalidInputs(e) == {k \in RequiredKeys : ~ValidInput(k, e[k])}

\* C2: a construction by getInstance() succeeds if and only if all five inputs
\* are valid; for every other input it throws 'Invalid environment
\* configuration...' and no snapshot is produced.
Thm_C2 ==
  [][(GetInstanceReturned' /\ instance = 0) =>
       /\ ret'.ok <=> InvalidInputs(env) = {}
       /\ ret'.ok =>
            /\ instance' = Len(heap) + 1
            /\ heap' = Append(heap, [k \in RequiredKeys |-> env[k]])
       /\ ~ret'.ok =>
            /\ ret'.val.error =
                 "Invalid environment configuration. Please check your .env file."
            /\ instance' = 0
            /\ heap' = heap]_vars

\* getInstance() threw for an environment whose only invalid input is a
\* CIDR block of three octets
Wit_C2 ==
  /\ GetInstanceReturned /\ ~ret.ok
  /\ instance = 0
  /\ InvalidInputs(env) = {"CIDR_BLOCK"}
  /\ env["CIDR_BLOCK"] = S_cidr3

\* the reason logged for an invalid input v of variable k
Reason(k, v) ==
  IF v = UNDEFINED THEN "Required"
  ELSE CASE k = "STAGE"          -> "Invalid enum value"
         [] k = "PROJECT"        -> "PROJECT is required"
         [] k = "CDK_REGION"     -> "CDK_REGION is required"
         [] k = "CDK_ACCOUNT_ID" -> "CDK_ACCOUNT_ID must be a 12-digit AWS account ID"
         [] k = "CIDR_BLOCK"     -> "CIDR_BLOCK must be valid CIDR notation"

\* C3: when several inputs are invalid at once, the construction throws one
\* error and the diagnostic lists every failing field with its reason, one
\* entry per violation; no snapshot is constructed, not even in part.
Thm_C3 ==
  [][(GetInstanceReturned' /\ ~ret'.ok) =>
       /\ Len(console') = 1 + Cardinality(InvalidInputs(env))
       /\ \A k \in InvalidInputs(env) :
            \E i \in 2..Len(console') :
              console'[i] = "  - " \o k \o ": " \o Reason(k, env[k])
       /\ instance' = 0
       /\ heap' = heap]_vars

\* getInstance() threw with all five inputs invalid and logged five entries
Wit_C3 ==
  /\ GetInstanceReturned /\ ~ret.ok
  /\ pc = "loaded"
  /\ InvalidInputs(env) = RequiredKeys
  /\ Len(console) = 6

\* C4: a construction that fails leaves the loader uninitialized, and a later
\* getInstance() call, made once the inputs are valid, validates them again
\* and reaches READY, however many constructions failed before it.
Thm_C4 ==
  [][GetInstanceReturned' =>
       /\ ~ret'.ok => (instance' = 0 /\ heap' = heap)
       /\ (instance = 0 /\ InvalidInputs(env) = {}) =>
            /\ ret'.ok
            /\ instance' # 0
            /\ ret'.val.ref = instance'
            /\ heap'[instance'] = [k \in RequiredKeys |-> env[k]]]_vars

\* READY was reached by a caller's getInstance() after MaxFailures failed
\* constructions
Wit_C4 ==
  /\ GetInstanceReturned /\ ret.ok
  /\ failures = MaxFailures
  /\ resets > 0
  /\ ret.val.ref = Len(heap) /\ instance = Len(heap)
  /\ heap[instance] = [k \in RequiredKeys |-> env[k]]

\* the value a snapshot getter named op returns on object o
SnapshotValue(op, o, key) ==
  CASE op = "getEnvironment" -> getEnvironment(o)
    [] op = "get"            -> [key |-> key, str |-> get(o, key)]
    [] op = "getPrefix"      -> [str |-> getPrefix(o)]
    [] op = "isProduction"   -> [bool |-> isProduction(o)]
    [] op = "isDevelopment"  -> [bool |-> isDevelopment(o)]

SnapshotGetters ==
  {"getEnvironment", "get", "getPrefix", "isProduction", "isDevelopment"}

\* C5: once READY, READY is never left and the snapshot never changes: no
\* change of the five variables in process.env and no getter call changes
\* what getEnvironment(), get(), getPrefix(), isProduction(), isDevelopment()
\* or the cidrBlock of getVpcConfig() return (each call returns what it would
\* have returned before the step), and no later getInstance() call reads the
\* inputs again (it neither constructs, nor throws, nor logs).
Thm_C5 ==
  [][instance # 0 =>
       /\ instance' = instance
       /\ heap' = heap
       /\ getPrefix(instance)' = getPrefix(instance)
       /\ ret'.op \in SnapshotGetters =>
            ret'.val = SnapshotValue(ret'.op, ret'.this,
                                     IF ret'.op = "get" THEN ret'.val.key ELSE "STAGE")
       /\ (ret'.op = "getVpcConfig" /\ ret'.ok) =>
            ret'.val.cidrBlock = get(ret'.this, "CIDR_BLOCK")
       /\ GetInstanceReturned' =>
            (ret'.ok /\ ret'.val.ref = instance /\ console' = <<>>)]_vars

\* getPrefix() returned the prefix of the snapshot after STAGE and PROJECT
\* were changed in process.env
Wit_C5 ==
  /\ instance # 0
  /\ ret.op = "getPrefix" /\ ret.this = instance
  /\ heap[instance].STAGE = S_dev /\ env["STAGE"] = S_prod
  /\ env["PROJECT"] = UNDEFINED
  /\ ret.val.str = <<"a", "p", "p", "-", "d", "e", "v">>

-----------------------------------------------------------------------------
(* Claims about the snapshot's getters *)

\* project, "-" and stage, one after the other
ProjectDashStage(project, stage) ==
  [i \in 1..(Len(project) + 1 + Len(stage)) |->
     IF i <= Len(project) THEN project[i]
     ELSE IF i = Len(project) + 1 THEN "-"
     ELSE stage[i - Len(project) - 1]]

\* C7: in every READY state getPrefix() and getEnvironment().prefix are equal
\* to each other and to '{PROJECT}-{STAGE}' of the validated snapshot.
Thm_C7 ==
  /\ \A o \in Objects :
       /\ getPrefix(o) = getEnvironment(o).prefix
       /\ getPrefix(o) = ProjectDashStage(get(o, "PROJECT"), get(o, "STAGE"))
       /\ getEnvironment(o).prefix =
            ProjectDashStage(getEnvironment(o).project, getEnvironment(o).stage)
  /\ ret.op = "getPrefix" =>
       ret.val.str = ProjectDashStage(heap[ret.this].PROJECT, heap[ret.this].STAGE)
  /\ ret.op = "getEnvironment" =>
       ret.val.prefix = ProjectDashStage(heap[ret.this].PROJECT, heap[ret.this].STAGE)

\* getEnvironment() returned the prefix app-prod
Wit_C7 ==
  /\ ret.op = "getEnvironment"
  /\ ret.val.project = S_project /\ ret.val.stage = S_prod
  /\ ret.val.prefix = <<"a", "p", "p", "-", "p", "r", "o", "d">>
  /\ getPrefix(ret.this) = ret.val.prefix

\* C8: for every READY snapshot isProduction() and isDevelopment() are never
\* both true; isDevelopment() alone is true for dev, isProduction() alone for
\* prod, and both are false for stg.
Thm_C8 ==
  \A o \in Objects :
    /\ ~(isProduction(o) /\ isDevelopment(o))
    /\ get(o, "STAGE") = S_dev => (isDevelopment(o) /\ ~isProduction(o))
    /\ get(o, "STAGE") = S_prod => (isProduction(o) /\ ~isDevelopment(o))
    /\ get(o, "STAGE") = S_stg => (~isProduction(o) /\ ~isDevelopment(o))

\* isDevelopment() returned false for a stg snapshot
Wit_C8 ==
  /\ ret.op = "isDevelopment" /\ ~ret.val.bool
  /\ heap[ret.this].STAGE = S_stg
  /\ ~isProduction(ret.this)

-----------------------------------------------------------------------------
(* Claims about the entry point *)

\* C6: in the entry point the configuration is validated before anything is
\* defined: whenever the app, a stack or a construct exists, or synth has run,
\* the exported snapshot exists and holds five valid inputs; with an invalid
\* input the import fails, nothing is ever constructed and synth never runs.
Thm_C6 ==
  /\ (tree # {} \/ synthesized \/ stackArgs # NoStackArgs) =>
       /\ pc \notin {"import", "failed"}
       /\ envConfig # 0 /\ envConfig = instance
       /\ InvalidInputs(env) = {}
       /\ \A k \in RequiredKeys : ValidInput(k, get(envConfig, k))
  /\ InvalidInputs(env) # {} =>
       /\ pc \in {"import", "failed"}
       /\ tree = {} /\ ~synthesized /\ stackArgs = NoStackArgs
  /\ pc = "failed" =>
       /\ instance = 0 /\ envConfig = 0
       /\ tree = {} /\ ~synthesized /\ stackArgs = NoStackArgs

\* the import failed on an invalid CDK_ACCOUNT_ID and nothing was constructed
Wit_C6 ==
  /\ pc = "failed"
  /\ InvalidInputs(env) = {"CDK_ACCOUNT_ID"}
  /\ ret.op = "getInstance" /\ ~ret.ok
  /\ tree = {} /\ ~synthesized

-----------------------------------------------------------------------------
(* Claims about the derived configurations *)

\* C9: a getVpcConfig() call that returns gives cidrBlock equal to the
\* validated CIDR_BLOCK; with VPC_MAX_AZS and VPC_NAT_GATEWAYS unset it returns
\* maxAzs 2 and natGateways 0; VPC_MAX_AZS = '3' gives maxAzs 3 and
\* VPC_NAT_GATEWAYS = '1' gives natGateways 1, and with both the call returns.
Thm_C9 ==
  ret.op = "getVpcConfig" =>
    /\ ret.ok =>
         /\ ret.val.cidrBlock = get(ret.this, "CIDR_BLOCK")
         /\ ret.val.cidrBlock = env["CIDR_BLOCK"]
         /\ env["VPC_MAX_AZS"] = UNDEFINED => ret.val.maxAzs = [nan |-> FALSE, n |-> 2]
         /\ env["VPC_NAT_GATEWAYS"] = UNDEFINED =>
              ret.val.natGateways = [nan |-> FALSE, n |-> 0]
         /\ env["VPC_MAX_AZS"] = <<"3">> => ret.val.maxAzs = [nan |-> FALSE, n |-> 3]
         /\ env["VPC_NAT_GATEWAYS"] = <<"1">> =>
              ret.val.natGateways = [nan |-> FALSE, n |-> 1]
    /\ (/\ env["VPC_MAX_AZS"] \in {UNDEFINED, <<"3">>}
        /\ env["VPC_NAT_GATEWAYS"] \in {UNDEFINED, <<"1">>}) => ret.ok

\* getVpcConfig() returned maxAzs 3 and natGateways 1
Wit_C9 ==
  /\ ret.op = "getVpcConfig" /\ ret.ok
  /\ env["VPC_MAX_AZS"] = <<"3">> /\ env["VPC_NAT_GATEWAYS"] = <<"1">>
  /\ ret.val = [cidrBlock   |-> S_cidr,
                maxAzs      |-> [nan |-> FALSE, n |-> 3],
                natGateways |-> [nan |-> FALSE, n |-> 1]]

\* the text an override variable k is set to, or the default d when it is not set
OverrideOr(k, d) == IF env[k] = UNDEFINED THEN d ELSE env[k]

\* the numbers written by the well-formed numeric texts process.env takes
Written ==
  [v \in {<<"0">>, <<"1">>, <<"2">>, <<"3">>, <<"4">>, <<"-", "1">>, <<"2", "0">>, <<"5", "0">>} |->
     CASE v = <<"0">>      -> 0
       [] v = <<"1">>      -> 1
       [] v = <<"2">>      -> 2
       [] v = <<"3">>      -> 3
       [] v = <<"4">>      -> 4
       [] v = <<"-", "1">> -> 0 - 1
       [] v = <<"2", "0">> -> 20
       [] v = <<"5", "0">> -> 50]

\* the field a call gave for variable k with default d reflects the text k has
\* at the call (an empty or malformed text is not constrained here)
ReflectsText(field, k, d) ==
  OverrideOr(k, d) # <<>> => field = OverrideOr(k, d)

ReflectsNumber(field, k, d) ==
  OverrideOr(k, d) \in DOMAIN Written =>
    field = [nan |-> FALSE, n |-> Written[OverrideOr(k, d)]]

Thm_C11 ==
  ret.op = "getVpcConfig" =>
    /\ ret.ok =>
         /\ ~ret.val.maxAzs.nan /\ ret.val.maxAzs.n \in 1..3
         /\ ~ret.val.natGateways.nan /\ ret.val.natGateways.n \in Nat
    /\ env["VPC_MAX_AZS"] \in {<<"0">>, <<"4">>} => ~ret.ok
    /\ env["VPC_NAT_GATEWAYS"] = <<"-", "1">> => ~ret.ok

\* getVpcConfig() threw on VPC_MAX_AZS = '4' with a valid VPC_NAT_GATEWAYS
Wit_C11 ==
  /\ ret.op = "getVpcConfig" /\ ~ret.ok
  /\ env["VPC_MAX_AZS"] = <<"4">> /\ env["VPC_NAT_GATEWAYS"] = <<"1">>
  /\ ret.val.error = "ZodError"
  /\ Len(ret.val.issues) = 1 /\ ret.val.issues[1].path = "maxAzs"

\* the numeric override k is set to a text that writes no integer
Malformed(k) ==
  /\ env[k] # UNDEFINED
  /\ env[k] # <<>>
  /\ env[k] \notin DOMAIN Written

\* C12: a numeric override that is present but writes no integer makes its
\* getter fail: getVpcConfig() throws when VPC_MAX_AZS or VPC_NAT_GATEWAYS is
\* 'abc', getRdsConfig() throws when RDS_STORAGE is 'abc', and no value that is
\* returned carries a number that is not a number.
Cex_C12 ==
  /\ (ret.op = "getVpcConfig" /\ (Malformed("VPC_MAX_AZS") \/ Malformed("VPC_NAT_GATEWAYS")))
       => ~ret.ok
  /\ (ret.op = "getRdsConfig" /\ Malformed("RDS_STORAGE")) => ~ret.ok
  /\ (ret.op = "getRdsConfig" /\ ret.ok) => ~ret.val.allocatedStorage.nan

\* the numeric override k is not set, or writes an integer
UnsetOrInteger(k) == env[k] = UNDEFINED \/ env[k] \in DOMAIN Written

\* the numeric override k is not set, or writes an integer of the range lo..hi
UnsetOrWithin(k, lo, hi) ==
  \/ env[k] = UNDEFINED
  \/ env[k] \in DOMAIN Written /\ Written[env[k]] >= lo /\ Written[env[k]] <= hi

\* C13 as stated: whenever each numeric override is unset or a well-formed
\* integer, getVpcConfig(), getRdsConfig() and getEc2Config() return a value.
Cex_C13 ==
  (/\ ret.op \in {"getVpcConfig", "getRdsConfig", "getEc2Config"}
   /\ UnsetOrInteger("VPC_MAX_AZS")
   /\ UnsetOrInteger("VPC_NAT_GATEWAYS")
   /\ UnsetOrInteger("RDS_STORAGE")) => ret.ok

\* C13, amended: whenever VPC_MAX_AZS is unset or an integer in 1..3 and
\* VPC_NAT_GATEWAYS is unset or an integer >= 0, getVpcConfig() returns a
\* value; getRdsConfig() and getEc2Config() return a value in every environment.
Thm_C13 ==
  /\ (/\ ret.op = "getVpcConfig"
      /\ UnsetOrWithin("VPC_MAX_AZS", 1, 3)
      /\ UnsetOrWithin("VPC_NAT_GATEWAYS", 0, 50)) => ret.ok
  /\ ret.op \in {"getRdsConfig", "getEc2Config"} => ret.ok

\* getVpcConfig() returned with VPC_MAX_AZS at its upper limit, while
\* RDS_STORAGE was set
Wit_C13 ==
  /\ ret.op = "getVpcConfig" /\ ret.ok
  /\ env["VPC_MAX_AZS"] = <<"3">> /\ env["VPC_NAT_GATEWAYS"] = UNDEFINED
  /\ env["RDS_STORAGE"] = <<"5", "0">>
  /\ ret.val.maxAzs.n = 3

\* C14 as stated: getRdsConfig() and getEc2Config() return, field by field,
\* the override when its variable is set and the default when it is absent.
Cex_C14 ==
  /\ ret.op = "getRdsConfig" =>
       /\ ret.val.instanceType = OverrideOr("RDS_INSTANCE_TYPE", <<"t", "3", ".", "m", "i", "c", "r", "o">>)
       /\ ret.val.multiAz = (env["RDS_MULTI_AZ"] = <<"t", "r", "u", "e">>)
       /\ ReflectsNumber(ret.val.allocatedStorage, "RDS_STORAGE", <<"2", "0">>)
       /\ ret.val.dbName = OverrideOr("RDS_DB_NAME", <<"c", "d", "k", "a", "p", "p">>)
       /\ ret.val.username = OverrideOr("RDS_USERNAME", <<"p", "o", "s", "t", "g", "r", "e", "s">>)
  /\ ret.op = "getEc2Config" =>
       /\ ret.val.instanceType = OverrideOr("EC2_INSTANCE_TYPE", <<"t", "3", ".", "m", "i", "c", "r", "o">>)
       /\ ret.val.keyName = env["EC2_KEY_NAME"]

\* the text an override variable k is set to when it is set and not empty, or
\* the default d
NonEmptyOr(k, d) == IF env[k] \in {UNDEFINED, <<>>} THEN d ELSE env[k]

\* C14, amended: getRdsConfig() and getEc2Config() return, field by field, the
\* override when its variable is set to a non-empty text and the default when
\* it is absent or empty: instanceType 't3.micro', multiAz false,
\* allocatedStorage 20, dbName 'cdkapp', username 'postgres' for RDS,
\* instanceType 't3.micro' for EC2; keyName is EC2_KEY_NAME as it is, absent
\* when it is not set; multiAz is true exactly when RDS_MULTI_AZ is 'true', and
\* allocatedStorage is the integer RDS_STORAGE writes (50 for '50').
Thm_C14 ==
  /\ ret.op = "getRdsConfig" =>
       /\ ret.val.instanceType = NonEmptyOr("RDS_INSTANCE_TYPE", <<"t", "3", ".", "m", "i", "c", "r", "o">>)
       /\ ret.val.multiAz = (env["RDS_MULTI_AZ"] = <<"t", "r", "u", "e">>)
       /\ NonEmptyOr("RDS_STORAGE", <<"2", "0">>) \in DOMAIN Written =>
            ret.val.allocatedStorage =
              [nan |-> FALSE, n |-> Written[NonEmptyOr("RDS_STORAGE", <<"2", "0">>)]]
       /\ ret.val.dbName = NonEmptyOr("RDS_DB_NAME", <<"c", "d", "k", "a", "p", "p">>)
       /\ ret.val.username = NonEmptyOr("RDS_USERNAME", <<"p", "o", "s", "t", "g", "r", "e", "s">>)
  /\ ret.op = "getEc2Config" =>
       /\ ret.val.instanceType = NonEmptyOr("EC2_INSTANCE_TYPE", <<"t", "3", ".", "m", "i", "c", "r", "o">>)
       /\ ret.val.keyName = env["EC2_KEY_NAME"]

\* getRdsConfig() returned the default database name for an empty RDS_DB_NAME,
\* beside the user name that was set
Wit_C14 ==
  /\ ret.op = "getRdsConfig"
  /\ env["RDS_DB_NAME"] = <<>> /\ env["RDS_USERNAME"] = S_admin
  /\ env["RDS_MULTI_AZ"] = S_true
  /\ ret.val.dbName = S_cdkapp /\ ret.val.username = S_admin /\ ret.val.multiAz

-----------------------------------------------------------------------------
(* Claims about the validation of CIDR_BLOCK *)

\* C15: with the four other inputs valid, the module loads exactly when
\* CIDR_BLOCK reads d{1,3}.d{1,3}.d{1,3}.d{1,3}/d{1,2}: every text of that form
\* is accepted and stored as it is, 999.999.999.999/99 included, and every
\* other text is rejected; no octet or mask is checked against 255 or 32.
Thm_C15 ==
  /\ pc = "loaded" =>
       /\ IsCidrSyntax(env["CIDR_BLOCK"])
       /\ get(instance, "CIDR_BLOCK") = env["CIDR_BLOCK"]
  /\ pc = "failed" =>
       /\ env["CIDR_BLOCK"] = UNDEFINED \/ ~IsCidrSyntax(env["CIDR_BLOCK"])
       /\ instance = 0
  /\ (pc # "import" /\ env["CIDR_BLOCK"] = S_cidr999) => pc = "loaded"

\* 999.999.999.999/99 was accepted and getVpcConfig() returned it as cidrBlock
Wit_C15 ==
  /\ pc = "loaded"
  /\ env["CIDR_BLOCK"] = <<"9", "9", "9", ".", "9", "9", "9", ".", "9", "9", "9", ".",
                           "9", "9", "9", "/", "9", "9">>
  /\ ret.op = "getVpcConfig" /\ ret.ok
  /\ ret.val.cidrBlock = env["CIDR_BLOCK"]

-----------------------------------------------------------------------------
(* Claims about BaseConstruct *)

\* a, "-" and b, one after the other
Dashed(a, b) == ProjectDashStage(a, b)

\* C16: getResourceName(name) returns exactly '{env.prefix}-{name}', the name
\* as it was given, and is stable: no operation changes the environment of the
\* construct, so a call returns the same string whatever ran before it.
Thm_C16 ==
  [][/\ construct' = construct
     /\ ret'.op = "getResourceName" =>
          /\ ret'.val.str = Dashed(construct.prefix, ret'.val.name)
          /\ Len(ret'.val.str) = Len(construct.prefix) + 1 + Len(ret'.val.name)]_vars

\* getResourceName returned the name with its capitals and its blank, after
\* tags and outputs were defined
Wit_C16 ==
  /\ ret.op = "getResourceName"
  /\ Len(aspects) > 0 /\ Len(outputs) > 0
  /\ construct.prefix = <<"a", "p", "p", "-", "d", "e", "v">>
  /\ ret.val.name = S_Public1
  /\ ret.val.str = <<"a", "p", "p", "-", "d", "e", "v", "-">> \o S_Public1

\* the value of key k among the entries t of an object
ValueOf(t, k) == t[CHOOSE i \in 1..Len(t) : t[i].key = k].value

\* C17: getCommonTags() returns exactly the four keys Environment, Project,
\* ManagedBy and Prefix, with the values env.stage, env.project, 'CDK' and
\* env.prefix, and the call changes neither the construct nor its tags and
\* outputs.
Thm_C17 ==
  [][ret'.op = "getCommonTags" =>
       /\ Len(ret'.val.tags) = 4
       /\ {ret'.val.tags[i].key : i \in 1..4} = {"Environment", "Project", "ManagedBy", "Prefix"}
       /\ ValueOf(ret'.val.tags, "Environment") = construct.stage
       /\ ValueOf(ret'.val.tags, "Project") = construct.project
       /\ ValueOf(ret'.val.tags, "ManagedBy") = <<"C", "D", "K">>
       /\ ValueOf(ret'.val.tags, "Prefix") = construct.prefix
       /\ construct' = construct /\ aspects' = aspects /\ outputs' = outputs]_vars

\* getCommonTags() returned the tags of a prod construct that already has tags
Wit_C17 ==
  /\ ret.op = "getCommonTags"
  /\ construct.stage = S_prod
  /\ Len(aspects) > 0
  /\ ValueOf(ret.val.tags, "Environment") = S_prod
  /\ ValueOf(ret.val.tags, "Prefix") = <<"a", "p", "p", "-", "p", "r", "o", "d">>

\* the output a createOutput call with arguments a defines, given its export name
OutputOf(a, exportName) ==
  [id |-> a.id, value |-> a.value, description |-> a.description, exportName |-> exportName]

Assignments(t, k) ==
  {a \in {aspects[i] : i \in 1..Len(aspects)} \cup {VpcNameTag(construct)} :
     a.key = k /\ (a.includeResourceTypes = {} \/ t \in a.includeResourceTypes)}

\* no assignment of key k on the resource of type t has a higher priority than a
Highest(a, t, k) == \A b \in Assignments(t, k) : b.priority <= a.priority

\* C19: applyTagsToResourceTypes adds its tag for the listed resource types
\* only, with priority 200 when no priority is given and the given priority
\* otherwise, and leaves the tags of the resources of other types as they are;
\* of the assignments of one key on one resource one of the highest priority
\* wins; so after VpcConstruct's applyResourceTags the InternetGateway is named
\* '{prefix}-igw', not by the Name tag of the Vpc.
Thm_C19 ==
  [][/\ ret'.op = "applyTagsToResourceTypes" =>
          /\ Len(aspects') = Len(aspects) + 1
          /\ aspects'[Len(aspects')].key = ret'.val.config.key
          /\ aspects'[Len(aspects')].value = ret'.val.config.value
          /\ ~ret'.val.config.priority.given => aspects'[Len(aspects')].priority = 200
          /\ (ret'.val.config.priority.given /\ ret'.val.config.priority.n # 0) =>
               aspects'[Len(aspects')].priority = ret'.val.config.priority.n
          /\ ret'.val.config.hasTypes =>
               \A t \in ResourceTypes \ ret'.val.config.resourceTypes :
                 ResourceTags(aspects', construct, t) = ResourceTags(aspects, construct, t)
     /\ \A t \in ResourceTypes, k \in TagKeys :
          /\ ResourceTags(aspects, construct, t)[k].set <=> Assignments(t, k) # {}
          /\ ResourceTags(aspects, construct, t)[k].set =>
               \E a \in Assignments(t, k) :
                 /\ Highest(a, t, k)
                 /\ ResourceTags(aspects, construct, t)[k].value = a.value
                 /\ ResourceTags(aspects, construct, t)[k].priority = a.priority
     /\ ret'.op = "applyResourceTags" =>
          /\ ResourceTags(aspects', construct, "AWS::EC2::InternetGateway")["Name"].value
               = Dashed(construct.prefix, <<"i", "g", "w">>)
          /\ ResourceTags(aspects', construct, "AWS::EC2::InternetGateway")["Name"].priority = 300]_vars

\* the InternetGateway is named '{prefix}-igw' by applyResourceTags, after a
\* tag of the default priority 200 named it otherwise; the VPC keeps the Name
\* that tag gave it
Wit_C19 ==
  /\ ret.op = "applyResourceTags"
  /\ Len(aspects) = 2
  /\ aspects[1].key = "Name" /\ aspects[1].priority = 200 /\ aspects[1].includeResourceTypes = {}
  /\ ResourceTags(aspects, construct, "AWS::EC2::InternetGateway")["Name"].value
       = construct.prefix \o <<"-", "i", "g", "w">>
  /\ ResourceTags(aspects, construct, "AWS::EC2::VPC")["Name"].value = S_custom

-----------------------------------------------------------------------------
(* Claims about the getters called twice *)

Getters ==
  {"getEnvironment", "getPrefix", "getVpcConfig", "getRdsConfig", "getEc2Config",
   "isProduction", "isDevelopment"}

\* what a call of the getter named op on object o returns or throws now
CallNow(op, o) ==
  CASE op = "getVpcConfig" -> getVpcConfig(o)
    [] op = "getRdsConfig" -> [ok |-> TRUE, val |-> getRdsConfig(o)]
    [] op = "getEc2Config" -> [ok |-> TRUE, val |-> getEc2Config(o)]
    [] OTHER               -> [ok |-> TRUE, val |-> SnapshotValue(op, o, "STAGE")]

\* C20: a getter call changes neither process.env nor the instance and its
\* snapshot, so a second call of the same getter on the same object, with the
\* environment unchanged since the first, returns (or throws) what the first
\* call did: the result of the last call is the result a call made now gives,
\* and a call that follows the same call gives the same result.
Thm_C20 ==
  /\ [][ret'.op \in Getters =>
          /\ env' = env /\ instance' = instance /\ heap' = heap /\ envConfig' = envConfig
          /\ (ret.op = ret'.op /\ ret.this = ret'.this) => ret' = ret]_vars
  /\ [](ret.op \in Getters =>
          CallNow(ret.op, ret.this) = [ok |-> ret.ok, val |-> ret.val])

\* getRdsConfig() returned the overrides of a prod environment, and a call
\* made now returns the same
Wit_C20 ==
  /\ ret.op = "getRdsConfig"
  /\ heap[ret.this]["STAGE"] = S_prod
  /\ env["RDS_STORAGE"] # UNDEFINED /\ env["RDS_DB_NAME"] # UNDEFINED
  /\ env["VPC_MAX_AZS"] # UNDEFINED
  /\ getRdsConfig(ret.this) = ret.val
  /\ ret.val.dbName = env["RDS_DB_NAME"]

-----------------------------------------------------------------------------
(* Claims about the holders of the configuration *)

\* C27: at every point after the module is loaded, the exported envConfig and
\* the instance EnvironmentConfig.getInstance() returns are the same object
\* with the same values, also after a reset of the static field and a new
\* construction: no two snapshots with different values exist together.
Cex_C27 ==
  (pc = "loaded" /\ instance # 0) =>
    /\ envConfig = instance
    /\ \A o \in Objects : heap[o] = heap[envConfig]

-----------------------------------------------------------------------------
(* Claims about the viewer-request function *)

\* the request of the event has the parameter x-api-key with the configured key
HasApiKey(event) ==
  /\ event.request.querystring["x-api-key"] # NoParam
  /\ event.request.querystring["x-api-key"].value =
       <<"L", "z", "d", "W", "G", "p", "A", "T", "o", "Q", "1", "D", "q", "Y", "u", "z", "H", "x", "E", "6", "Y", "O", "q", "i", "7", "G", "3", "X", "2", "y", "v", "N", "B", "o", "t", "9", "m", "C", "X", "f", "x", "5", "k">>

\* C26: the viewer-request handler forwards a request, unchanged, if and only
\* if its query string has an 'x-api-key' parameter whose value equals the
\* configured key; for every other request (parameter missing, empty value or
\* another value) it returns the 403 'Forbidden' response and not the request.
Thm_C26 ==
  ret.op = "handler" =>
    /\ ret.val.result.forwarded <=> HasApiKey(ret.val.event)
    /\ ret.val.result.forwarded => ret.val.result.request = ret.val.event.request
    /\ ~ret.val.result.forwarded =>
         /\ ret.val.result.response.statusCode = 403
         /\ ret.val.result.response.statusDescription = <<"F", "o", "r", "b", "i", "d", "d", "e", "n">>
         /\ DOMAIN ret.val.result = {"forwarded", "response"}

\* a request with the key under the name X-Api-Key and a key one character
\* short under x-api-key was answered with the 403 response
Wit_C26 ==
  /\ ret.op = "handler"
  /\ ret.val.event.request.querystring["X-Api-Key"] # NoParam
  /\ ret.val.event.request.querystring["x-api-key"] # NoParam
  /\ Len(ret.val.event.request.querystring["x-api-key"].value) = 42
  /\ ~ret.val.result.forwarded
  /\ ret.val.result.response.statusCode = 403

-----------------------------------------------------------------------------
(* Claims about the stack of constructs *)

\* a CdkInitStack stands, with its three constructs
StackStands == "CdkInitStack" \in tree /\ pc \in {"stack", "done"}

\* C21: every taggable resource of a CdkInitStack carries the global tags
\* ProjectID = env.prefix, Environment = env.stage and Repository =
\* 'cdk-init', the resources inside the three constructs included.
Thm_C21 ==
  StackStands =>
    \A r \in Resources :
      /\ TagsOf(aspects, r)["ProjectID"].set
      /\ TagsOf(aspects, r)["ProjectID"].value = stackArgs.env.prefix
      /\ TagsOf(aspects, r)["Environment"].set
      /\ TagsOf(aspects, r)["Environment"].value = stackArgs.env.stage
      /\ TagsOf(aspects, r)["Repository"].set
      /\ TagsOf(aspects, r)["Repository"].value = <<"c", "d", "k", "-", "i", "n", "i", "t">>

\* the stack of a prod environment is synthesized; a NAT gateway, the database
\* and the instance are among its resources, and the VPC has the three tags
Wit_C21 ==
  /\ StackStands /\ synthesized
  /\ stackArgs.env.stage = S_prod
  /\ \E r \in Resources : r.type = "AWS::EC2::NatGateway"
  /\ \E r \in Resources : r.type = "AWS::RDS::DBInstance"
  /\ \E r \in Resources : r.type = "AWS::EC2::Instance"
  /\ \E r \in Resources :
       /\ r.type = "AWS::EC2::VPC"
       /\ TagsOf(aspects, r)["ProjectID"].value = <<"a", "p", "p", "-", "p", "r", "o", "d">>
       /\ TagsOf(aspects, r)["Environment"].value = S_prod
       /\ TagsOf(aspects, r)["Repository"].value = <<"c", "d", "k", "-", "i", "n", "i", "t">>

\* C22: after the stack is built every resource, those inside VpcConstruct,
\* RdsConstruct and Ec2Construct included, has the value 'AWS-CDK' for the
\* key ManagedBy.
Cex_C22 ==
  StackStands =>
    \A r \in Resources :
      /\ TagsOf(aspects, r)["ManagedBy"].set
      /\ TagsOf(aspects, r)["ManagedBy"].value = <<"A", "W", "S", "-", "C", "D", "K">>

\* a stack stands with a VpcConstruct in it
VpcStands == "VpcConstruct" \in tree /\ pc \in {"stack", "vpc", "rds", "done"}

\* natGateways is given and greater than 0
NatPositive(vpcConfig) ==
  /\ vpcConfig.natGateways # NoNumber
  /\ ~vpcConfig.natGateways.nan
  /\ vpcConfig.natGateways.n > 0

\* the Name tags of priority 300 for the resources of the given type
NameTagsFor(type) ==
  {i \in 1..Len(aspects) :
     /\ aspects[i].key = "Name" /\ aspects[i].priority = 300
     /\ aspects[i].includeResourceTypes = {type}}

\* C23: VpcConstruct defines one public and one private subnet group; the
\* private group is PRIVATE_WITH_EGRESS exactly when natGateways > 0 and
\* PRIVATE_ISOLATED otherwise, also when natGateways is absent; the Name tags
\* of the NAT gateway and the Elastic IP are added exactly when natGateways > 0.
Thm_C23 ==
  VpcStands =>
    /\ Len(stackArgs.vpc.subnetConfiguration) = 2
    /\ stackArgs.vpc.subnetConfiguration[1].subnetType = "PUBLIC"
    /\ stackArgs.vpc.subnetConfiguration[2].subnetType =
         (IF NatPositive(stackArgs.vpcConfig) THEN "PRIVATE_WITH_EGRESS" ELSE "PRIVATE_ISOLATED")
    /\ NameTagsFor("AWS::EC2::NatGateway") # {} <=> NatPositive(stackArgs.vpcConfig)
    /\ NameTagsFor("AWS::EC2::EIP") # {} <=> NatPositive(stackArgs.vpcConfig)
    /\ \A i \in NameTagsFor("AWS::EC2::NatGateway") :
         aspects[i].value = Dashed(stackArgs.env.prefix, <<"n", "a", "t">>)
    /\ \A i \in NameTagsFor("AWS::EC2::EIP") :
         aspects[i].value = Dashed(stackArgs.env.prefix, <<"e", "i", "p", "-", "n", "a", "t">>)

\* a VpcConstruct was made of a configuration without natGateways: its private
\* group is isolated and there is no Name tag for a NAT gateway
Wit_C23 ==
  /\ VpcStands
  /\ stackArgs.vpcConfig.natGateways = NoNumber
  /\ stackArgs.vpc.subnetConfiguration[2].subnetType = "PRIVATE_ISOLATED"
  /\ NameTagsFor("AWS::EC2::NatGateway") = {}
  /\ NameTagsFor("AWS::EC2::InternetGateway") # {}

\* the subnets of the given type that the VPC of the template has
SubnetsInTemplate(subnetType) ==
  {r \in Resources : r.type = "AWS::EC2::Subnet" /\ r.scope.group = subnetType}

\* C24: RdsConstruct places the database in PRIVATE_WITH_EGRESS subnets when
\* the VPC has a private subnet with egress and in PRIVATE_ISOLATED subnets
\* otherwise; with the VPC of VpcConstruct, whatever natGateways is, the VPC
\* has subnets of the type selected, so the constructor does not fail on an
\* empty selection.
Thm_C24 ==
  "RdsConstruct" \in tree =>
    /\ pc # "crashed"
    /\ stackArgs.rds.subnetType =
         (IF SubnetsInTemplate("PRIVATE_WITH_EGRESS") # {}
          THEN "PRIVATE_WITH_EGRESS" ELSE "PRIVATE_ISOLATED")
    /\ SubnetsInTemplate(stackArgs.rds.subnetType) # {}

\* the database of a stack without NAT gateways is in the isolated subnets
\* the VPC has
Wit_C24 ==
  /\ StackStands /\ pc = "stack"
  /\ stackArgs.vpc.natGateways = 0
  /\ stackArgs.rds.subnetType = "PRIVATE_ISOLATED"
  /\ SubnetsInTemplate("PRIVATE_ISOLATED") # {}
  /\ SubnetsInTemplate("PRIVATE_WITH_EGRESS") = {}

\* C25: the database name defaults to 'cdkapp' and the username to 'postgres'
\* wherever none is supplied: in getRdsConfig() without RDS_DB_NAME and
\* RDS_USERNAME, and in an RdsConstruct given a configuration without dbName
\* and username.
Cex_C25 ==
  /\ (pc = "loaded" /\ env["RDS_DB_NAME"] = UNDEFINED /\ env["RDS_USERNAME"] = UNDEFINED) =>
       /\ getRdsConfig(envConfig).dbName = <<"c", "d", "k", "a", "p", "p">>
       /\ getRdsConfig(envConfig).username = <<"p", "o", "s", "t", "g", "r", "e", "s">>
  /\ ("RdsConstruct" \in tree /\ pc # "crashed") =>
       /\ stackArgs.rdsConfig.dbName = UNDEFINED => stackArgs.rds.databaseName = <<"c", "d", "k", "a", "p", "p">>
       /\ stackArgs.rdsConfig.username = UNDEFINED => stackArgs.rds.username = <<"p", "o", "s", "t", "g", "r", "e", "s">>

\* C28: within one CdkInitStack the export names of the outputs that
\* VpcConstruct, RdsConstruct and Ec2Construct create are pairwise distinct,
\* as no two createOutput calls of the stack use the same output id.
Thm_C28 ==
  StackStands =>
    /\ Len(outputs) = Len(VpcOutputs) + Len(RdsOutputs) + Len(Ec2Outputs)
    /\ \A i, j \in 1..Len(outputs) :
         i # j => /\ outputs[i].out.exportName # outputs[j].out.exportName
                  /\ outputs[i].out.id # outputs[j].out.id
    /\ \A i \in 1..Len(outputs) :
         outputs[i].out.exportName = Dashed(stackArgs.env.prefix, outputs[i].out.id)

\* the stack has its ten outputs, app-dev-VpcId of VpcConstruct and
\* app-dev-Ec2PublicIp of Ec2Construct among them
Wit_C28 ==
  /\ StackStands
  /\ Len(outputs) = 10
  /\ \E i \in 1..Len(outputs) :
       /\ outputs[i].scope.construct = "VpcConstruct"
       /\ outputs[i].out.exportName = <<"a", "p", "p", "-", "d", "e", "v", "-", "V", "p", "c", "I", "d">>
  /\ \E i \in 1..Len(outputs) :
       /\ outputs[i].scope.construct = "Ec2Construct"
       /\ outputs[i].out.exportName = <<"a", "p", "p", "-", "d", "e", "v", "-", "E", "c", "2", "P", "u", "b", "l", "i", "c", "I", "p">>

\* the name tagSubnets is to give the subnet or the route table r
SubnetNameOf(r, prefix) ==
  Dashed(prefix,
         (IF r.scope.group = "PUBLIC" THEN <<"p", "u", "b", "l", "i", "c">> ELSE <<"p", "r", "i", "v", "a", "t", "e">>)
         \o (IF r.type = "AWS::EC2::Subnet" THEN <<"-", "s", "u", "b", "n", "e", "t", "-">> ELSE <<"-", "r", "t", "-">>)
         \o AzName(r.scope.az))

\* C29: every subnet VpcConstruct creates, public or private, and its route
\* table have a Name tag of priority 300, '{prefix}-{public|private}-subnet-{az}'
\* and '{prefix}-{public|private}-rt-{az}', whatever natGateways is, the
\* default 0 with its PRIVATE_ISOLATED group included.
Cex_C29 ==
  VpcStands =>
    \A r \in Resources :
      r.type \in {"AWS::EC2::Subnet", "AWS::EC2::RouteTable"} =>
        /\ TagsOf(aspects, r)["Name"].priority = 300
        /\ TagsOf(aspects, r)["Name"].value = SubnetNameOf(r, stackArgs.env.prefix)

\* C30: the prefix a construct uses in getResourceName, in the default export
\* name and in the Prefix tag is '{Project tag}-{Environment tag}' of
\* getCommonTags(), and in a CdkInitStack the environment used for naming and
\* tagging is that of the snapshot the configurations are derived from.
Cex_C30 ==
  VpcStands =>
    /\ ValueOf(getCommonTags(stackArgs.env), "Prefix") =
         Dashed(ValueOf(getCommonTags(stackArgs.env), "Project"),
                ValueOf(getCommonTags(stackArgs.env), "Environment"))
    /\ getResourceName(stackArgs.env, S_vpc) =
         Dashed(Dashed(stackArgs.env.project, stackArgs.env.stage), S_vpc)
    /\ StackStands => stackArgs.env = getEnvironment(envConfig)

====
